---- MODULE Spec2Model ----
(***************************************************************************)
(* Model of the AHK Manipulator backend (src/backend/core.py,              *)
(* src/backend/db_handlers.py): the board data model, the handler          *)
(* registry, the handlers and the execution engine, with stop()/pause()/   *)
(* resume() issued from another thread (src/ui/main_window.py) at any      *)
(* point of a run.                                                         *)
(***************************************************************************)
EXTENDS Integers, Sequences, FiniteSets, TLC

(***************************************************************************)
(* Bounds of the model.                                                    *)
(***************************************************************************)
\* polls a wait handler makes before its timeout elapses
MaxPolls == 2
\* nesting depth of RUN_ROW calls explored
MaxDepth == 2
\* execute_board calls on one engine
MaxRuns == 2
\* register_handler calls on one registry
MaxRegister == 1
\* rows / actions per row of the boards enumerated for get_all_actions
MaxRows == 2
MaxRowLen == 2

(***************************************************************************)
(* Python values.                                                          *)
(***************************************************************************)
None == "None"

EmptyMap == [k \in {} |-> TRUE]

\* dict.get(key, default)
Get(m, k, d) == IF k \in DOMAIN m THEN m[k] ELSE d

\* dict[key] = value
Put(m, k, v) == [x \in (DOMAIN m) \cup {k} |-> IF x = k THEN v ELSE m[x]]

Last(s) == s[Len(s)]

(***************************************************************************)
(* ActionType and the data model.                                          *)
(***************************************************************************)
ActionType ==
  {"MOUSE_CLICK", "MOUSE_MOVE", "KEY_PRESS", "WAIT_TIME", "WAIT_PIXEL_COLOR",
   "WAIT_PIXEL_CHANGE", "WAIT_IMAGE", "WAIT_TEXT", "CONDITIONAL", "LOOP",
   "SCREENSHOT", "LOG", "DB_SEARCH", "DB_GET_VALUE", "DB_ITERATE", "DB_SAVE",
   "CHECK_VALUE", "RUN_ROW"}

\* Optional[Coordinates]: present = FALSE stands for None
Coordinates(x, y) == [present |-> TRUE, x |-> x, y |-> y]

NoCoordinates == [present |-> FALSE, x |-> 0, y |-> 0]

\* Optional[Color]: present = FALSE stands for None
Color(r, g, b, tolerance) ==
  [present |-> TRUE, r |-> r, g |-> g, b |-> b, tolerance |-> tolerance]

NoColor == [present |-> FALSE, r |-> 0, g |-> 0, b |-> 0, tolerance |-> 0]

\* Action(id, action_type, name, ...) with the dataclass defaults; name = id
Action(id, kind, md) ==
  [id |-> id, action_type |-> kind, name |-> id, enabled |-> TRUE,
   delay_before_ms |-> 0, delay_after_ms |-> 0, repeat_count |-> 1,
   coordinates |-> NoCoordinates, color |-> NoColor, key |-> None,
   mouse_button |-> "left", metadata |-> md]

\* TaskRow(id, name, actions, enabled); name = id
TaskRow(id, enabled, acts) ==
  [id |-> id, name |-> id, enabled |-> enabled, actions |-> acts]

\* TaskBoard(id, name, rows, created_at, modified_at); the timestamps are
\* readings of a clock, 0 for the boards built before a run
TaskBoard(rows) ==
  [id |-> "board", name |-> "board", rows |-> rows,
   created_at |-> 0, modified_at |-> 0]

\* [a for a in row.actions if a.enabled]
EnabledActions(row) == SelectSeq(row.actions, LAMBDA a : a.enabled)

RECURSIVE FlattenRows(_)
FlattenRowsOfAll(rows) ==
  IF rows = <<>> THEN <<>>
  ELSE EnabledActions(Head(rows)) \o FlattenRows(Tail(rows))

FlattenRows(rows) ==
  IF rows = <<>> THEN <<>>
  ELSE (IF Head(rows).enabled THEN EnabledActions(Head(rows)) ELSE <<>>)
       \o FlattenRows(Tail(rows))

FirstRowActions(b) == FlattenRows(SubSeq(b.rows, 1, 1))

get_all_actions(b) == FlattenRows(b.rows)

\* ExecutionResult(success, action_id, action_name, message, error); the
\* message of a conditional carries the condition's value and the decision
Msg(text) == [text |-> text, cond |-> "-", decision |-> "-"]

ExecutionResult(success, a, message, error) ==
  [success |-> success, action_id |-> a.id, message |-> message, error |-> error]

\* Optional[str] error: NoError stands for None; kind is the action kind an
\* error text names
Err(text) == [text |-> text, kind |-> "-"]

NoError == [text |-> "None", kind |-> "-"]

NoResult == [success |-> FALSE, action_id |-> None, message |-> Msg(""), error |-> NoError]

(***************************************************************************)
(* Handlers.  A handler step yields a set of outcomes, one per behaviour   *)
(* of the capability port it calls: the port returns a value, returns      *)
(* None, or raises.  kind "return" is a returned ExecutionResult, "raise"  *)
(* an exception leaving execute(), "continue" a suspension inside a        *)
(* polling loop.  vars is the handler's variables map after the step,      *)
(* sleeps the suspensions of a timed wait made in it.                      *)
(***************************************************************************)
Ret(v, r) ==
  [kind |-> "return", vars |-> v, result |-> r, calls |-> <<>>, sleeps |-> <<>>]

Raise(v) ==
  [kind |-> "raise", vars |-> v, result |-> NoResult, calls |-> <<>>,
   sleeps |-> <<>>]

Continue(v) ==
  [kind |-> "continue", vars |-> v, result |-> NoResult, calls |-> <<>>,
   sleeps |-> <<>>]

\* one suspension, as recorded in sleeps
Sleep(a, by, ms) == [id |-> a.id, by |-> by, ms |-> ms]

SleepingNot(o, sl) == o

\* the outcome o of a handler step that suspended itself: asyncio.sleep
Sleeping(o, sl) == [o EXCEPT !.sleeps = sl]

\* the outcome o of a handler step that made the given calls on the pointer
\* port: IMouseService.move_to(x, y, duration_ms=0) and click(button)
Calling(o, calls) == [o EXCEPT !.calls = calls]

MoveTo(x, y, duration_ms) ==
  [op |-> "move_to", x |-> x, y |-> y, duration_ms |-> duration_ms, button |-> "-"]

ClickButton(button) ==
  [op |-> "click", x |-> 0, y |-> 0, duration_ms |-> 0, button |-> button]

\* str(value) for the values a condition compares (strings)
Str(v) == v

\* str.upper() on the log levels in use
Upper(s) ==
  CASE s = "info" -> "INFO" [] s = "warning" -> "WARNING"
    [] s = "debug" -> "DEBUG" [] OTHER -> s

\* MouseClickHandler.execute: either call on the port may raise, which the
\* handler's try/except turns into a failure
MouseClickHandler(a, vars, ports) ==
  IF ~ports.mouse
    THEN {Ret(vars, ExecutionResult(FALSE, a, Msg(""), Err("no mouse service")))}
  ELSE IF ~a.coordinates.present
    THEN {Ret(vars, ExecutionResult(FALSE, a, Msg(""), Err("no coordinates")))}
  ELSE LET move == MoveTo(a.coordinates.x, a.coordinates.y, 0)
           click == ClickButton(a.mouse_button)
           failure == Ret(vars, ExecutionResult(FALSE, a, Msg(""), Err("exception")))
       IN {Calling(Ret(vars, ExecutionResult(TRUE, a, Msg("moved"), NoError)),
                   <<move, click>>),
           Calling(failure, <<move>>),
           Calling(failure, <<move, click>>)}

\* MouseMoveHandler.execute
MouseMoveHandler(a, vars, ports) ==
  IF ~ports.mouse
    THEN {Ret(vars, ExecutionResult(FALSE, a, Msg(""), Err("no mouse service")))}
  ELSE IF ~a.coordinates.present
    THEN {Ret(vars, ExecutionResult(FALSE, a, Msg(""), Err("no coordinates")))}
  ELSE LET move == MoveTo(a.coordinates.x, a.coordinates.y,
                          Get(a.metadata, "move_duration_ms", 0))
       IN {Calling(Ret(vars, ExecutionResult(TRUE, a, Msg("moved"), NoError)),
                   <<move>>),
           Calling(Ret(vars, ExecutionResult(FALSE, a, Msg(""), Err("exception"))),
                   <<move>>)}

\* KeyPressHandler.execute
KeyPressHandler(a, vars, ports) ==
  IF ~ports.keyboard
    THEN {Ret(vars, ExecutionResult(FALSE, a, Msg(""), Err("no keyboard service")))}
  ELSE IF a.key \in {None, ""}
    THEN {Ret(vars, ExecutionResult(FALSE, a, Msg(""), Err("no key")))}
  ELSE {Ret(vars, ExecutionResult(TRUE, a, Msg("pressed"), NoError)),
        Ret(vars, ExecutionResult(FALSE, a, Msg(""), Err("exception")))}

\* CONFIG["default_delay_ms"]
default_delay_ms == 1000

WaitDelayAsGiven(a) == a.delay_before_ms

\* action.delay_before_ms or action.metadata.get('wait_ms', default)
WaitDelay(a) ==
  IF a.delay_before_ms # 0 THEN a.delay_before_ms
  ELSE Get(a.metadata, "wait_ms", default_delay_ms)

\* WaitTimeHandler.execute
WaitTimeHandler(a, vars, ports) ==
  {Sleeping(Ret(vars, ExecutionResult(TRUE, a, Msg("waited"), NoError)),
            <<Sleep(a, "handler", WaitDelay(a))>>)}

\* LogHandler.execute
LogHandler(a, vars, ports) ==
  LET message == Get(a.metadata, "message", a.id)
      level == Upper(Get(a.metadata, "log_level", "INFO"))
      v1 == Put(vars, "last_log_message", message)
      v2 == Put(v1, "last_log_level", level)
  IN {Ret(v2, ExecutionResult(TRUE, a, Msg(message), NoError))}

\* the values `result` can take in ConditionalHandler.execute, "raise" when
\* the screen port call raises
ConditionValues(a, vars, ports) ==
  LET condition_type == Get(a.metadata, "condition_type", "variable_equals")
      condition_value == Get(a.metadata, "condition_value", "")
  IN IF condition_type = "variable_equals"
       THEN {IF Str(Get(vars, Get(a.metadata, "variable_name", ""), ""))
                  = Str(condition_value) THEN "True" ELSE "False"}
     ELSE IF condition_type = "image_exists" /\ ports.screen
       THEN {"True", "False", "raise"}
     ELSE IF condition_type = "pixel_color" /\ ports.screen /\ a.coordinates.present
       THEN {"False", "raise"} \cup (IF a.color.present THEN {"True"} ELSE {})
     ELSE {"False"}

ApplyDecisionTwice(vars, decision) ==
  IF decision = "skip_next"
    THEN Put(vars, "_skip_next_count", Get(vars, "_skip_next_count", 0) + 2)
  ELSE IF decision = "break"
    THEN Put(vars, "_break_execution", TRUE)
  ELSE vars

\* the writes of a decision into the variables map
ApplyDecision(vars, decision) ==
  IF decision = "skip_next"
    THEN Put(vars, "_skip_next_count", Get(vars, "_skip_next_count", 0) + 1)
  ELSE IF decision = "break"
    THEN Put(vars, "_break_execution", TRUE)
  ELSE vars

\* ConditionalHandler.execute
ConditionalHandler(a, vars, ports) ==
  LET if_true == Get(a.metadata, "if_true", "execute_next")
      if_false == Get(a.metadata, "if_false", "skip_next")
      Outcome(c) ==
        IF c = "raise" THEN Raise(vars)
        ELSE LET decision == IF c = "True" THEN if_true ELSE if_false
             IN Ret(ApplyDecision(vars, decision),
                    ExecutionResult(TRUE, a,
                      [text |-> "condition", cond |-> c, decision |-> decision], NoError))
  IN {Outcome(c) : c \in ConditionValues(a, vars, ports)}

\* one turn of the polling loop of a wait handler after p polls: the port
\* raises, the awaited sample is seen, or the handler sleeps; after MaxPolls
\* polls the timeout has elapsed.  `found` is the map after a match.
PollLoop(a, vars, p, found, text) ==
  IF p >= MaxPolls
    THEN {Ret(vars, ExecutionResult(FALSE, a, Msg("timeout"), NoError))}
  ELSE {Raise(vars), Continue(vars),
        Ret(found, ExecutionResult(TRUE, a, Msg(text), NoError))}

\* the initial sample of a pixel wait, taken before the first poll
InitialSample(a, vars, p, rest) ==
  IF p > 0 THEN rest
  ELSE {Raise(vars),
        Ret(vars, ExecutionResult(FALSE, a, Msg(""), Err("no initial colour")))}
       \cup rest

\* WaitPixelColorHandler.execute
WaitPixelColorHandler(a, vars, ports, p) ==
  IF ~ports.screen
    THEN {Ret(vars, ExecutionResult(FALSE, a, Msg(""), Err("no screen service")))}
  ELSE IF ~a.coordinates.present
    THEN {Ret(vars, ExecutionResult(FALSE, a, Msg(""), Err("no coordinates")))}
  ELSE IF Get(a.metadata, "any_change", FALSE)
    THEN InitialSample(a, vars, p, PollLoop(a, vars, p, vars, "pixel changed"))
  ELSE PollLoop(a, vars, p, vars, "colour seen")

\* WaitPixelChangeHandler.execute
WaitPixelChangeHandler(a, vars, ports, p) ==
  IF ~ports.screen
    THEN {Ret(vars, ExecutionResult(FALSE, a, Msg(""), Err("no screen service")))}
  ELSE IF ~a.coordinates.present
    THEN {Ret(vars, ExecutionResult(FALSE, a, Msg(""), Err("no coordinates")))}
  ELSE InitialSample(a, vars, p, PollLoop(a, vars, p, vars, "pixel changed"))

\* WaitImageHandler.execute
WaitImageHandler(a, vars, ports, p) ==
  IF ~ports.screen
    THEN {Ret(vars, ExecutionResult(FALSE, a, Msg(""), Err("no screen service")))}
  ELSE IF Get(a.metadata, "image_path", "") = ""
    THEN {Ret(vars, ExecutionResult(FALSE, a, Msg(""), Err("no image path")))}
  ELSE PollLoop(a, vars, p,
                Put(Put(vars, "last_image_x", 1), "last_image_y", 1), "image found")

\* a handler installed with register_handler: returns a success Result
CustomHandler(a, vars, ports) ==
  {Ret(vars, ExecutionResult(TRUE, a, Msg("custom"), NoError))}

\* handler.execute(action) of handler h after p polls
HandlerExecute(h, a, vars, ports, p) ==
  CASE h = "MOUSE_CLICK" -> MouseClickHandler(a, vars, ports)
    [] h = "MOUSE_MOVE" -> MouseMoveHandler(a, vars, ports)
    [] h = "KEY_PRESS" -> KeyPressHandler(a, vars, ports)
    [] h = "WAIT_TIME" -> WaitTimeHandler(a, vars, ports)
    [] h = "LOG" -> LogHandler(a, vars, ports)
    [] h = "CONDITIONAL" -> ConditionalHandler(a, vars, ports)
    [] h = "WAIT_PIXEL_COLOR" -> WaitPixelColorHandler(a, vars, ports, p)
    [] h = "WAIT_PIXEL_CHANGE" -> WaitPixelChangeHandler(a, vars, ports, p)
    [] h = "WAIT_IMAGE" -> WaitImageHandler(a, vars, ports, p)
    [] h = "custom" -> CustomHandler(a, vars, ports)

(***************************************************************************)
(* Boards and port configurations the engine is run on.                    *)
(***************************************************************************)
Log(id, m) == Action(id, "LOG", [message |-> m])

Cond(id, var, val, t, f) ==
  Action(id, "CONDITIONAL",
         [condition_type |-> "variable_equals", variable_name |-> var,
          condition_value |-> val, if_true |-> t, if_false |-> f])

RunRow(id, row) == Action(id, "RUN_ROW", [row_id |-> row])

PixelWait(id) ==
  [Action(id, "WAIT_PIXEL_CHANGE", [timeout_ms |-> 200])
     EXCEPT !.coordinates = Coordinates(1, 1)]

Click(id) == [Action(id, "MOUSE_CLICK", <<>>) EXCEPT !.coordinates = Coordinates(1, 2)]

Disabled(a) == [a EXCEPT !.enabled = FALSE]

AllPorts == [mouse |-> TRUE, keyboard |-> TRUE, screen |-> TRUE]

NoPorts == [mouse |-> FALSE, keyboard |-> FALSE, screen |-> FALSE]

\* a conditional that breaks when true, between logged actions
BreakBoard ==
  TaskBoard(<<TaskRow("r1", TRUE,
    <<Log("a1", "m1"),
      Cond("c1", "last_log_message", "m1", "break", "execute_next"),
      Log("a2", "m2"), Log("a3", "m3")>>)>>)

\* conditionals that skip, one by if_true and one by the default if_false
SkipBoard ==
  TaskBoard(<<TaskRow("r1", TRUE,
    <<Cond("c1", "x", "", "skip_next", "execute_next"),
      Log("a1", "m1"),
      Action("c2", "CONDITIONAL", [variable_name |-> "last_log_message",
                                   condition_value |-> "m1"]),
      Log("a2", "m2"), Log("a3", "m3")>>)>>)

\* a row called as a subroutine, itself part of the flattened sequence
CallBoard ==
  TaskBoard(<<TaskRow("main", TRUE,
                <<RunRow("call", "sub"),
                  Cond("c0", "last_log_message", "m1", "execute_next", "break"),
                  Log("a0", "m0")>>),
              TaskRow("sub", TRUE,
                <<Log("s1", "m1"),
                  Cond("s2", "last_log_message", "m1", "skip_next", "break"),
                  Disabled(Log("s3", "m3")),
                  PixelWait("s4")>>)>>)

\* calls of a disabled row and of an unknown row, disabled actions
DisabledBoard ==
  TaskBoard(<<TaskRow("main", TRUE,
                <<RunRow("call1", "off"), Disabled(Log("d1", "m1")),
                  RunRow("call2", "nowhere"), Log("a1", "m1")>>),
              TaskRow("off", FALSE, <<Log("o1", "m2")>>)>>)

\* handlers that call the pointer and screen ports, with engine delays
PortBoard ==
  TaskBoard(<<TaskRow("r1", TRUE,
    <<[Click("k1") EXCEPT !.delay_before_ms = 10],
      PixelWait("w1"),
      Action("c1", "CONDITIONAL", [condition_type |-> "image_exists",
                                   image_path |-> "p.png", if_true |-> "break"]),
      Log("a1", "m1")>>)>>)

\* a call nested in a called row
NestedBoard ==
  TaskBoard(<<TaskRow("main", TRUE, <<RunRow("call", "mid"), Log("a0", "m0")>>),
              TaskRow("mid", TRUE, <<RunRow("inner", "leaf"), Log("m1", "m1")>>),
              TaskRow("leaf", TRUE,
                <<Cond("l1", "last_log_message", "", "skip_next", "skip_next"),
                  Cond("l2", "x", "", "skip_next", "skip_next")>>)>>)

\* conditionals on the screen: a pixel with and without a target colour,
\* one without coordinates, and an image
ConditionBoard ==
  TaskBoard(<<TaskRow("r1", TRUE,
    <<[Action("p1", "CONDITIONAL", [condition_type |-> "pixel_color",
                                    if_true |-> "skip_next",
                                    if_false |-> "execute_next"])
         EXCEPT !.coordinates = Coordinates(1, 1), !.color = Color(1, 2, 3, 0)],
      Log("a1", "m1"),
      [Action("p2", "CONDITIONAL", [condition_type |-> "pixel_color",
                                    if_true |-> "break",
                                    if_false |-> "execute_next"])
         EXCEPT !.coordinates = Coordinates(1, 1)],
      Action("p3", "CONDITIONAL", [condition_type |-> "pixel_color",
                                   if_true |-> "break",
                                   if_false |-> "execute_next"]),
      Action("p4", "CONDITIONAL", [condition_type |-> "image_exists",
                                   if_false |-> "break"]),
      Log("a2", "m2")>>)>>)

\* timed waits, called as a row and run at top level: with a delay_before,
\* with a wait_ms, with neither
WaitBoard ==
  TaskBoard(<<TaskRow("main", TRUE, <<RunRow("call", "waits")>>),
              TaskRow("waits", TRUE,
                <<[Action("w1", "WAIT_TIME", <<>>) EXCEPT !.delay_before_ms = 10],
                  Action("w2", "WAIT_TIME", [wait_ms |-> 20]),
                  Action("w3", "WAIT_TIME", <<>>)>>)>>)

\* an action with a delay_after, followed by another
DelayBoard ==
  TaskBoard(<<TaskRow("r1", TRUE,
    <<[Log("d1", "m1") EXCEPT !.delay_after_ms = 10], Log("d2", "m2")>>)>>)

Scenarios ==
  {[board |-> BreakBoard, ports |-> AllPorts],
   [board |-> DelayBoard, ports |-> AllPorts],
   [board |-> SkipBoard, ports |-> AllPorts],
   [board |-> CallBoard, ports |-> AllPorts],
   [board |-> DisabledBoard, ports |-> AllPorts],
   [board |-> PortBoard, ports |-> AllPorts],
   [board |-> PortBoard, ports |-> NoPorts],
   [board |-> ConditionBoard, ports |-> AllPorts],
   [board |-> ConditionBoard, ports |-> NoPorts],
   [board |-> WaitBoard, ports |-> AllPorts],
   [board |-> NestedBoard, ports |-> AllPorts]}

(***************************************************************************)
(* State.                                                                  *)
(***************************************************************************)
VARIABLES
  board,              \* the TaskBoard being edited and run
  ports,              \* which capability ports the registry was built with
  handlers,           \* ActionHandlerRegistry._handlers: kind -> handler
  registrations,      \* register_handler calls made so far
  handler_variables,  \* handler.variables: the dict each handler refers to
  handler_registry,   \* handler.registry of each handler
  dicts,              \* the dict objects: the engine's and each handler's own
  is_running,         \* ExecutionEngine.is_running
  is_paused,          \* ExecutionEngine.is_paused
  results,            \* ExecutionEngine.results
  actions,            \* execute_board: the flattened sequence of this run
  i,                  \* execute_board: 1-based position of the loop
  pc,                 \* where the engine's thread is in execute_board
  result,             \* value last returned by execute_action
  stack,              \* frames of the RUN_ROW calls in progress
  polls,              \* polls made by the wait handler in progress
  runs,               \* execute_board calls made so far
  outcome,            \* how the last execute_board call ended
  returned,           \* the list the last execute_board call returned; it is
                      \* self.results itself, which the next call clears
  executed,           \* ids of the actions execute_action was called on
  trace,              \* handler.execute calls of this run, in order
  stop_at,            \* position of the loop when stop() was first called,
                      \* and whether the engine was in the pause wait;
                      \* idle: stop() was called with no run under way,
                      \* before: it had been when this run started
  execution_time,     \* execute_action: the measured time of the handler, ms
  sleeps,             \* suspensions of this run, in order: who slept how long
  pointer_calls,      \* calls of this run on the pointer port, in order
  ahk_pc,             \* where the thread calling AhkRunner.execute_file is
  request,            \* the arguments and the environment of that call
  invoked,            \* components execute_file has called, in order
  pending,            \* _execute_emulated: diagnostics and board of the run
  ahk_result,         \* the AhkExecutionResult returned by execute_file
  saved,              \* the JSON document save_board wrote
  loaded,             \* the TaskBoard load_board returned
  wait_pc,            \* where WaitPixelChangeHandler.execute is
  wait_action,        \* the action it was called on
  initial,            \* its local `initial`
  elapsed,            \* (loop.time() - start) * 1000, whole milliseconds
  samples,            \* the polls made: the elapsed time tested and `current`
  wait_result,        \* the ExecutionResult it returned
  script_pc,          \* how far a script text has got: parsed, translated
  script_text,        \* the lines of the script text
  parsed,             \* the AhkScript parse_text returned
  translation,        \* what to_board returned, or that it raised
  buffer,             \* RecordingManager.buffer: the ActionBuffer
  fed,                \* the feed() and flush() calls made on it, in order
  is_recording,       \* RecordingManager.is_recording
  is_stopping,        \* RecordingManager._is_stopping
  target_row_id,      \* RecordingManager.target_row_id
  listener_thread,    \* RecordingManager.listener_thread
  queued,             \* listener signals queued for the GUI thread
  emitted,            \* signals the RecordingManager emitted, in order
  created,            \* rows, buffers, listeners made and signals raised
  appended            \* backend.add_action calls made by _append_action

vars ==
  <<board, ports, handlers, registrations, handler_variables, handler_registry,
    dicts, is_running, is_paused, results, actions, i, pc, result, stack, polls,
    runs, outcome, returned, executed, trace, stop_at, execution_time, sleeps,
    pointer_calls, ahk_pc, request, invoked, pending, ahk_result, saved, loaded,
    wait_pc, wait_action, initial, elapsed, samples, wait_result,
    script_pc, script_text, parsed, translation, buffer, fed,
    is_recording, is_stopping, target_row_id, listener_thread, queued,
    emitted, created, appended>>

timing_vars == <<execution_time, sleeps>>

ahk_vars == <<ahk_pc, request, invoked, pending, ahk_result>>

file_vars == <<saved, loaded>>

wait_vars ==
  <<wait_pc, wait_action, initial, elapsed, samples, wait_result>>

script_vars == <<script_pc, script_text, parsed, translation>>

\* the state of the components that are exercised on their own
buffer_vars == <<buffer, fed>>

manager_vars ==
  <<is_recording, is_stopping, target_row_id, listener_thread, queued,
    emitted, created, appended>>

unit_vars == <<wait_vars, script_vars, buffer_vars, manager_vars>>

HandlerIds == ActionType \cup {"custom"}

\* the kinds _register_default_handlers assigns a handler to, in its order
DefaultRegistrations ==
  <<"MOUSE_CLICK", "MOUSE_MOVE", "KEY_PRESS", "WAIT_TIME", "WAIT_PIXEL_COLOR",
    "WAIT_PIXEL_CHANGE", "WAIT_IMAGE", "WAIT_TEXT", "CONDITIONAL", "LOOP",
    "SCREENSHOT", "LOG", "DB_SEARCH", "DB_GET_VALUE", "DB_ITERATE", "DB_SAVE",
    "CHECK_VALUE", "RUN_ROW">>

\* ActionHandlerRegistry._register_default_handlers: the handler of a kind
\* is named by the kind
DefaultHandlers ==
  [k \in {DefaultRegistrations[n] : n \in 1..Len(DefaultRegistrations)} |-> k]

\* ActionHandlerRegistry.get_handler
GetDefaultHandler(reg, kind) == Get(DefaultHandlers, kind, None)

get_handler(reg, kind) == Get(reg, kind, None)

NoStop ==
  [called |-> FALSE, pos |-> 0, paused |-> FALSE, idle |-> FALSE, before |-> FALSE]

\* Optional[TaskBoard] None
NoBoard == [id |-> None]

\* no run has measured or slept yet
TimingInit == execution_time = 0 /\ sleeps = <<>>

\* AhkExecutionResult not yet returned
NoAhkResult ==
  [success |-> FALSE, mode |-> "-", return_code |-> 0, diagnostics |-> <<>>,
   board |-> NoBoard]

NoRequest == [mode |-> "-"]

NoPending == [diagnostics |-> <<>>, board |-> NoBoard]

\* execute_file is not called: the engine is driven directly
AhkNone ==
  /\ ahk_pc = "none"
  /\ request = NoRequest
  /\ invoked = <<>>
  /\ pending = NoPending
  /\ ahk_result = NoAhkResult

\* no file written yet
NoDocument == [written |-> FALSE]

\* no board has been saved or loaded
NoFiles == saved = NoDocument /\ loaded = NoBoard

\* WaitPixelChangeHandler.execute is not called
NoWait ==
  /\ wait_pc = "none"
  /\ wait_action = [id |-> None]
  /\ initial = NoColor
  /\ elapsed = 0
  /\ samples = <<>>
  /\ wait_result = NoResult

\* no script text is parsed on its own
NoScript ==
  /\ script_pc = "none"
  /\ script_text = <<>>
  /\ parsed = [requires |-> None]
  /\ translation = [kind |-> "none"]

\* RecordingEvent(type, ts, button, x, y, key, delay_before); `raw` is the
\* position in `fed` of the raw event it was built from
RecordingEvent(type, ts, button, x, y, key, raw) ==
  [type |-> type, ts |-> ts, button |-> button, x |-> x, y |-> y, key |-> key,
   delay_before |-> 0, raw |-> raw]

\* Optional[dict] None of ActionBuffer._pending_click
NoClick == [present |-> FALSE, ts |-> 0, button |-> "", x |-> 0, y |-> 0, raw |-> 0]

\* Optional[int] None of ActionBuffer._last_action_ts
NoTs == [present |-> FALSE, ts |-> 0]

\* ActionBuffer.__init__
ActionBuffer ==
  [events |-> <<>>, last_action_ts |-> NoTs, pending_click |-> NoClick]

\* no ActionBuffer is fed on its own
NoBuffer == buffer = ActionBuffer /\ fed = <<>>

\* Optional None of a row id or of a listener; the n-th one made otherwise
NoRef == [present |-> FALSE, n |-> 0]

Ref(n) == [present |-> TRUE, n |-> n]

\* RecordingManager.__init__, and nothing called on it
NoManager ==
  /\ is_recording = FALSE
  /\ is_stopping = FALSE
  /\ target_row_id = NoRef
  /\ listener_thread = NoRef
  /\ queued = <<>>
  /\ emitted = <<>>
  /\ created = [rows |-> 0, buffers |-> 1, listeners |-> 0, signals |-> 0]
  /\ appended = <<>>

\* no component is exercised on its own
NoUnits == NoWait /\ NoScript /\ NoBuffer /\ NoManager

\* the engine's variables map
Variables == dicts["engine"]

Init ==
  /\ \E s \in Scenarios : board = s.board /\ ports = s.ports
  /\ handlers = DefaultHandlers
  /\ registrations = 0
  /\ handler_variables = [h \in HandlerIds |-> h]
  /\ handler_registry = [h \in HandlerIds |-> None]
  /\ dicts = [r \in HandlerIds \cup {"engine"} |-> EmptyMap]
  /\ is_running = FALSE
  /\ is_paused = FALSE
  /\ results = <<>>
  /\ actions = <<>>
  /\ i = 1
  /\ pc = "idle"
  /\ result = NoResult
  /\ stack = <<>>
  /\ polls = 0
  /\ runs = 0
  /\ outcome = "none"
  /\ returned = <<>>
  /\ executed = <<>>
  /\ trace = <<>>
  /\ stop_at = NoStop
  /\ TimingInit
  /\ pointer_calls = <<>>
  /\ AhkNone
  /\ NoFiles
  /\ NoUnits

(***************************************************************************)
(* Requests from the other thread and registry edits.                      *)
(***************************************************************************)
\* ExecutionEngine.stop; stop_at notes the first call made during a run, and
\* a call made before the first run
Stop ==
  /\ is_running' = FALSE
  /\ stop_at' = IF pc # "idle" /\ ~stop_at.called
                  THEN [stop_at EXCEPT !.called = TRUE,
                                       !.pos = IF pc = "loop" THEN i - 1 ELSE i,
                                       !.paused = is_paused /\ pc = "pause"]
                ELSE IF pc = "idle" /\ runs = 0 THEN [stop_at EXCEPT !.idle = TRUE]
                ELSE stop_at
  /\ UNCHANGED <<board, ports, handlers, registrations, handler_variables,
                 handler_registry, dicts, is_paused, results, actions, i, pc,
                 result, stack, polls, runs, outcome, returned, executed, trace>>
  /\ UNCHANGED <<timing_vars, ahk_vars, file_vars, unit_vars, pointer_calls>>

\* ExecutionEngine.pause
Pause ==
  /\ is_paused' = TRUE
  /\ UNCHANGED <<board, ports, handlers, registrations, handler_variables,
                 handler_registry, dicts, is_running, results, actions, i, pc,
                 result, stack, polls, runs, outcome, returned, executed, trace, stop_at>>
  /\ UNCHANGED <<timing_vars, ahk_vars, file_vars, unit_vars, pointer_calls>>

\* ExecutionEngine.resume
Resume ==
  /\ is_paused' = FALSE
  /\ UNCHANGED <<board, ports, handlers, registrations, handler_variables,
                 handler_registry, dicts, is_running, results, actions, i, pc,
                 result, stack, polls, runs, outcome, returned, executed, trace, stop_at>>
  /\ UNCHANGED <<timing_vars, ahk_vars, file_vars, unit_vars, pointer_calls>>

\* the kinds of the actions of a board
BoardKinds(b) ==
  UNION {{b.rows[r].actions[k].action_type : k \in 1..Len(b.rows[r].actions)} :
           r \in 1..Len(b.rows)}

\* ActionHandlerRegistry.register_handler, between runs while a run can
\* follow, for a kind in use
RegisterHandler ==
  /\ pc = "idle"
  /\ runs < MaxRuns
  /\ registrations < MaxRegister
  /\ \E k \in BoardKinds(board), h \in {"custom", None} :
       handlers' = Put(handlers, k, h)
  /\ registrations' = registrations + 1
  /\ UNCHANGED <<board, ports, handler_variables, handler_registry, dicts,
                 is_running, is_paused, results, actions, i, pc, result, stack,
                 polls, runs, outcome, returned, executed, trace, stop_at>>
  /\ UNCHANGED <<timing_vars, ahk_vars, file_vars, unit_vars, pointer_calls>>

\* the control variables a caller can set between runs
SettableVariables ==
  {<<"_break_execution", TRUE>>, <<"_skip_next_count", 1>>}

\* ExecutionEngine.set_variable, between runs
SetVariable ==
  /\ pc = "idle"
  /\ runs < MaxRuns
  /\ \E kv \in SettableVariables :
       /\ kv[1] \notin DOMAIN Variables
       /\ dicts' = [dicts EXCEPT !["engine"] = Put(@, kv[1], kv[2])]
  /\ UNCHANGED <<board, ports, handlers, registrations, handler_variables,
                 handler_registry, is_running, is_paused, results, actions, i,
                 pc, result, stack, polls, runs, outcome, returned, executed,
                 trace, stop_at>>
  /\ UNCHANGED <<timing_vars, ahk_vars, file_vars, unit_vars, pointer_calls>>

(***************************************************************************)
(* ExecutionEngine.execute_board and execute_action.                       *)
(***************************************************************************)
SeedVariablesKept == Put(Put(Variables, "_board", "board"), "_running", TRUE)

\* the seeding of the per-run state
SeedVariables == Put(Put(EmptyMap, "_board", "board"), "_running", TRUE)

RunningKept(running) == running

\* self.is_running = True
RunningAtStart(running) == TRUE

\* execute_board(b) up to the loop
StartRun(b) ==
  /\ runs' = runs + 1
  /\ is_running' = RunningAtStart(is_running)
  /\ results' = <<>>
  /\ dicts' = [dicts EXCEPT !["engine"] = SeedVariables]
  /\ actions' = get_all_actions(b)
  /\ i' = 1
  /\ pc' = "loop"
  /\ outcome' = "none"
  /\ trace' = <<>>
  /\ stop_at' = [NoStop EXCEPT !.before = stop_at.idle]
  /\ result' = NoResult
  /\ returned' = <<>>
  /\ executed' = <<>>
  /\ execution_time' = 0
  /\ sleeps' = <<>>
  /\ pointer_calls' = <<>>
  /\ UNCHANGED <<ports, handlers, registrations, handler_variables,
                 handler_registry, is_paused, stack, polls>>

\* a call of execute_board on the board, made directly on the engine
ExecuteBoard ==
  /\ pc = "idle"
  /\ runs < MaxRuns
  /\ ahk_pc = "none"
  /\ StartRun(board)
  /\ UNCHANGED <<board, ahk_vars, file_vars, unit_vars>>

SameIndex(n) == n

\* for i, action in enumerate(actions): the position of the next iteration
NextIndex(n) == n + 1

StopIgnored(running) == FALSE

\* if not self.is_running: break
StopRequested(running) == ~running

\* for i, action in enumerate(actions), and the is_running check
LoopHead ==
  /\ pc = "loop"
  /\ pc' = IF i > Len(actions) \/ StopRequested(is_running) THEN "finish"
           ELSE "control"
  /\ UNCHANGED <<board, ports, handlers, registrations, handler_variables,
                 handler_registry, dicts, is_running, is_paused, results,
                 actions, i, result, stack, polls, runs, outcome, returned, executed,
                 trace, stop_at>>
  /\ UNCHANGED <<timing_vars, ahk_vars, file_vars, unit_vars, pointer_calls>>

BreakIgnored(v) == FALSE

\* self.variables.get("_break_execution")
BreakRequested(v) == Get(v, "_break_execution", FALSE)

\* int(self.variables.get("_skip_next_count", 0))
SkipCount(v) == Get(v, "_skip_next_count", 0)

SkipKept(n) == n

\* skip_count - 1
SkipDecrement(n) == n - 1

\* the _break_execution and _skip_next_count checks of the loop
ControlCheck ==
  /\ pc = "control"
  /\ IF BreakRequested(Variables)
       THEN pc' = "finish" /\ UNCHANGED <<dicts, i>>
     ELSE IF SkipCount(Variables) > 0
       THEN /\ dicts' = [dicts EXCEPT !["engine"] =
                           Put(@, "_skip_next_count",
                               SkipDecrement(SkipCount(Variables)))]
            /\ i' = NextIndex(i)
            /\ pc' = "loop"
     ELSE pc' = "pause" /\ UNCHANGED <<dicts, i>>
  /\ UNCHANGED <<board, ports, handlers, registrations, handler_variables,
                 handler_registry, is_running, is_paused, results, actions,
                 result, stack, polls, runs, outcome, returned, executed, trace, stop_at>>
  /\ UNCHANGED <<timing_vars, ahk_vars, file_vars, unit_vars, pointer_calls>>

PauseIgnored(paused) == FALSE

\* while self.is_paused
PauseRequested(paused) == paused

\* while self.is_paused: await asyncio.sleep(0.1)
PauseWait ==
  /\ pc = "pause"
  /\ pc' = IF PauseRequested(is_paused) THEN "pause" ELSE "exec"
  /\ UNCHANGED <<board, ports, handlers, registrations, handler_variables,
                 handler_registry, dicts, is_running, is_paused, results,
                 actions, i, result, stack, polls, runs, outcome, returned, executed,
                 trace, stop_at>>
  /\ UNCHANGED <<timing_vars, ahk_vars, file_vars, unit_vars, pointer_calls>>

\* execute_action: the enabled check and delay_before
ExecuteAction ==
  /\ pc = "exec"
  /\ IF ~actions[i].enabled
       THEN /\ result' = ExecutionResult(FALSE, actions[i], Msg("disabled"), NoError)
            /\ i' = NextIndex(i)
            /\ pc' = "loop"
       ELSE /\ pc' = IF actions[i].delay_before_ms > 0 THEN "sleep_before"
                     ELSE "dispatch"
            /\ UNCHANGED <<result, i>>
  /\ executed' = Append(executed, actions[i].id)
  /\ UNCHANGED <<board, ports, handlers, registrations, handler_variables,
                 handler_registry, dicts, is_running, is_paused, results,
                 actions, stack, polls, runs, outcome, returned, trace, stop_at>>
  /\ UNCHANGED <<timing_vars, ahk_vars, file_vars, unit_vars, pointer_calls>>

\* await self._precise_sleep(action.delay_before_ms)
SleepBefore ==
  /\ pc = "sleep_before"
  /\ pc' = "dispatch"
  /\ sleeps' = Append(sleeps, Sleep(actions[i], "before", actions[i].delay_before_ms))
  /\ UNCHANGED execution_time
  /\ UNCHANGED <<board, ports, handlers, registrations, handler_variables,
                 handler_registry, dicts, is_running, is_paused, results,
                 actions, i, result, stack, polls, runs, outcome, returned, executed,
                 trace, stop_at>>
  /\ UNCHANGED <<ahk_vars, file_vars, unit_vars, pointer_calls>>

\* one handler.execute call, as recorded in trace
Call(pos, a, via, h, ref, reg, depth) ==
  [pos |-> pos, id |-> a.id, kind |-> a.action_type, via |-> via,
   handler |-> h, variables |-> ref, registry |-> reg, depth |-> depth]

MissingHandlerRaises(a) == [pc |-> "raised", result |-> NoResult]

\* if not handler: return ExecutionResult(success=False, ..., error=...)
MissingHandler(a) ==
  [pc |-> "loop",
   result |-> ExecutionResult(FALSE, a, Msg(""),
                              [text |-> "no handler", kind |-> a.action_type])]

\* execute_action: get_handler, the missing-handler return, the injection
Dispatch ==
  /\ pc = "dispatch"
  /\ LET h == get_handler(handlers, actions[i].action_type)
         n == MissingHandler(actions[i])
     IN IF h = None
          THEN /\ result' = n.result
               /\ i' = IF n.pc = "loop" THEN NextIndex(i) ELSE i
               /\ pc' = n.pc
               /\ UNCHANGED <<handler_variables, handler_registry, trace, polls>>
          ELSE /\ handler_variables' = [handler_variables EXCEPT ![h] = "engine"]
               /\ handler_registry' = [handler_registry EXCEPT ![h] = "registry"]
               /\ trace' = Append(trace,
                             Call(i, actions[i], "engine", h, "engine", "registry", 0))
               /\ polls' = 0
               /\ pc' = "handler"
               /\ UNCHANGED <<result, i>>
  /\ UNCHANGED <<board, ports, handlers, registrations, dicts, is_running,
                 is_paused, results, actions, stack, runs, outcome, returned, executed,
                 stop_at>>
  /\ UNCHANGED <<timing_vars, ahk_vars, file_vars, unit_vars, pointer_calls>>

(***************************************************************************)
(* Handler execution: pc = "handler".  With an empty stack the handler of  *)
(* actions[i] runs; otherwise RunRowHandler.execute is inside its loop     *)
(* over the actions of the row of the top frame.                           *)
(***************************************************************************)
Top == Last(stack)

Pop(stk) == SubSeq(stk, 1, Len(stk) - 1)

CurAction ==
  IF stack = <<>> THEN actions[i] ELSE board.rows[Top.row].actions[Top.pos]

\* the registry a RUN_ROW call looks handlers up in: self.registry
SubRegistry == IF handler_registry["RUN_ROW"] = "registry" THEN handlers ELSE EmptyMap

\* the handler that executes CurAction
CurHandler ==
  IF stack = <<>> THEN get_handler(handlers, CurAction.action_type)
  ELSE get_handler(SubRegistry, CurAction.action_type)

SubVariablesOwn(h) == handler_variables[h]

\* handler.variables and handler.registry given to a handler by RunRowHandler
SubVariables(h) == handler_variables["RUN_ROW"]

SubHandlerRegistry(h) == handler_registry["RUN_ROW"]

ReturnedObserving(stk, r) ==
  IF stk = <<>> THEN [stack |-> <<>>, result |-> r, pc |-> "append"]
  ELSE [stack |-> [stk EXCEPT ![Len(stk)].pos =
                     IF r.message.decision \in {"skip_next", "break"}
                       THEN Len(board.rows[Last(stk).row].actions) + 1
                       ELSE @ + 1],
        result |-> result, pc |-> "handler"]

\* the engine state after a handler call at the top of stack stk returned r:
\* execute_action goes on to append it, RunRowHandler drops it and moves on
Returned(stk, r) ==
  IF stk = <<>> THEN [stack |-> <<>>, result |-> r, pc |-> "append"]
  ELSE [stack |-> [stk EXCEPT ![Len(stk)].pos = @ + 1], result |-> result,
        pc |-> "handler"]

\* the engine state after a handler call at the top of stack stk raised: the
\* try/except of the innermost RunRowHandler.execute returns a failure, an
\* exception outside any RUN_ROW call leaves execute_board
Raised(stk) ==
  IF stk = <<>> THEN [stack |-> <<>>, result |-> result, pc |-> "raised"]
  ELSE Returned(Pop(stk),
                ExecutionResult(FALSE, [id |-> Last(stk).caller], Msg(""),
                                Err("run row exception")))

\* index of the first row with the given id, 0 when there is none
FindRow(b, row_id) ==
  IF \E r \in 1..Len(b.rows) : b.rows[r].id = row_id
    THEN CHOOSE r \in 1..Len(b.rows) :
           /\ b.rows[r].id = row_id
           /\ \A q \in 1..(r - 1) : b.rows[q].id # row_id
    ELSE 0

\* the injection and the record of a call made by RunRowHandler
SubDispatch(h) ==
  IF stack # <<>> /\ polls = 0
    THEN /\ handler_variables' = [handler_variables EXCEPT ![h] = SubVariables(h)]
         /\ handler_registry' = [handler_registry EXCEPT ![h] = SubHandlerRegistry(h)]
         /\ trace' = Append(trace,
                       Call(0, CurAction, "run_row", h, SubVariables(h),
                            SubHandlerRegistry(h), Len(stack)))
    ELSE UNCHANGED <<handler_variables, handler_registry, trace>>

\* a step of handler.execute for every handler but RunRowHandler
HandlerRun ==
  /\ pc = "handler"
  /\ stack # <<>> => Top.pos <= Len(board.rows[Top.row].actions) /\ CurAction.enabled
  /\ CurHandler \notin {None, "RUN_ROW"}
  /\ SubDispatch(CurHandler)
  /\ LET ref == handler_variables'[CurHandler]
     IN \E o \in HandlerExecute(CurHandler, CurAction, dicts[ref], ports, polls) :
          /\ dicts' = [dicts EXCEPT ![ref] = o.vars]
          /\ pointer_calls' = pointer_calls \o o.calls
          /\ sleeps' = sleeps \o o.sleeps
          /\ IF o.kind = "continue"
               THEN polls' = polls + 1 /\ UNCHANGED <<stack, result, pc>>
               ELSE LET n == IF o.kind = "raise" THEN Raised(stack)
                             ELSE Returned(stack, o.result)
                    IN /\ stack' = n.stack
                       /\ result' = n.result
                       /\ pc' = n.pc
                       /\ polls' = 0
  /\ UNCHANGED <<board, ports, handlers, registrations, is_running, is_paused,
                 results, actions, i, runs, outcome, returned, executed, stop_at>>
  /\ UNCHANGED <<execution_time, ahk_vars, file_vars, unit_vars>>

\* a call of RunRowHandler.execute made with depth calls of it already
\* active exceeds the interpreter's recursion limit, which MaxDepth stands
\* for: RecursionError is raised
OverflowAtOnce(depth) == depth >= 1

Overflow(depth) == depth >= MaxDepth

\* RunRowHandler.execute up to its loop: the lookups and their failures; a
\* RecursionError is caught by the try/except of the call that was being
\* entered or by that of the call that made it
RunRowCall ==
  /\ pc = "handler"
  /\ stack # <<>> => Top.pos <= Len(board.rows[Top.row].actions) /\ CurAction.enabled
  /\ CurHandler = "RUN_ROW"
  /\ SubDispatch("RUN_ROW")
  /\ \E caught \in {"callee", "caller"} :
       LET a == CurAction
           v == dicts[handler_variables'["RUN_ROW"]]
           row_id == Get(a.metadata, "row_id", "")
           r == FindRow(board, row_id)
           Fail(message, error) ==
             Returned(stack, ExecutionResult(FALSE, a, message, error))
           n == IF Overflow(Len(stack))
                  THEN (IF caught = "callee"
                          THEN Fail(Msg(""), Err("run row exception"))
                          ELSE Raised(stack))
                ELSE IF Get(v, "_board", None) = None
                  THEN Fail(Msg(""), Err("board not available"))
                ELSE IF r = 0 THEN Fail(Msg(""), Err("row not found"))
                ELSE IF ~board.rows[r].enabled
                  THEN Fail(Msg("row disabled"), NoError)
                ELSE [stack |-> Append(stack, [row |-> r, pos |-> 1, caller |-> a.id]),
                      result |-> result, pc |-> "handler"]
       IN /\ stack' = n.stack
          /\ result' = n.result
          /\ pc' = n.pc
  /\ UNCHANGED <<board, ports, handlers, registrations, dicts, is_running,
                 is_paused, results, actions, i, polls, runs, outcome, returned, executed,
                 stop_at>>
  /\ UNCHANGED <<timing_vars, ahk_vars, file_vars, unit_vars, pointer_calls>>

\* RunRowHandler.execute: the loop passes a disabled action or one without
\* a handler, or ends and returns success
RunRowNext ==
  /\ pc = "handler"
  /\ stack # <<>>
  /\ LET n == IF Top.pos > Len(board.rows[Top.row].actions)
                THEN Returned(Pop(stack),
                       ExecutionResult(TRUE, [id |-> Top.caller], Msg("row done"), NoError))
              ELSE IF ~CurAction.enabled THEN Returned(stack, result)
              ELSE IF handler_registry["RUN_ROW"] = None THEN Raised(stack)
              ELSE Returned(stack, result)
     IN /\ Top.pos <= Len(board.rows[Top.row].actions) /\ CurAction.enabled
             /\ handler_registry["RUN_ROW"] # None
          => CurHandler = None
        /\ stack' = n.stack
        /\ result' = n.result
        /\ pc' = n.pc
  /\ UNCHANGED <<board, ports, handlers, registrations, handler_variables,
                 handler_registry, dicts, is_running, is_paused, results,
                 actions, i, polls, runs, outcome, returned, executed, trace, stop_at>>
  /\ UNCHANGED <<timing_vars, ahk_vars, file_vars, unit_vars, pointer_calls>>

\* measured execution times of a handler, in ms
ExecTimes == {0, 5, 10, 20}

RemainingFull(d, e) == d

\* remaining = action.delay_after_ms - execution_time
Remaining(d, e) == d - e

\* execute_action: self.results.append(result) and the delay_after decision;
\* the measured time is kept only when delay_after_ms > 0 reads it
AppendResult ==
  /\ pc = "append"
  /\ results' = Append(results, result)
  /\ \E e \in ExecTimes :
       IF actions[i].delay_after_ms > 0
         THEN /\ execution_time' = e
              /\ IF Remaining(actions[i].delay_after_ms, e) > 0
                   THEN pc' = "sleep_after" /\ i' = i
                   ELSE pc' = "loop" /\ i' = NextIndex(i)
         ELSE execution_time' = 0 /\ pc' = "loop" /\ i' = NextIndex(i)
  /\ UNCHANGED sleeps
  /\ UNCHANGED <<board, ports, handlers, registrations, handler_variables,
                 handler_registry, dicts, is_running, is_paused, actions,
                 result, stack, polls, runs, outcome, returned, executed, trace, stop_at>>
  /\ UNCHANGED <<ahk_vars, file_vars, unit_vars, pointer_calls>>

\* await self._precise_sleep(remaining)
SleepAfter ==
  /\ pc = "sleep_after"
  /\ pc' = "loop"
  /\ i' = NextIndex(i)
  /\ sleeps' = Append(sleeps, Sleep(actions[i], "after",
                                    Remaining(actions[i].delay_after_ms, execution_time)))
  /\ UNCHANGED execution_time
  /\ UNCHANGED <<board, ports, handlers, registrations, handler_variables,
                 handler_registry, dicts, is_running, is_paused, results,
                 actions, result, stack, polls, runs, outcome, returned, executed, trace,
                 stop_at>>
  /\ UNCHANGED <<ahk_vars, file_vars, unit_vars, pointer_calls>>

\* execute_board after the loop
Finish ==
  /\ pc = "finish"
  /\ is_running' = FALSE
  /\ dicts' = [dicts EXCEPT !["engine"] = Put(@, "_running", FALSE)]
  /\ returned' = results
  /\ executed' = executed
  /\ outcome' = "returned"
  /\ pc' = "idle"
  /\ UNCHANGED <<board, ports, handlers, registrations, handler_variables,
                 handler_registry, is_paused, results, actions, i, result,
                 stack, polls, runs, trace, stop_at>>
  /\ UNCHANGED <<timing_vars, ahk_vars, file_vars, unit_vars, pointer_calls>>

\* an exception of a handler leaves execute_action and execute_board
Propagate ==
  /\ pc = "raised"
  /\ outcome' = "raised"
  /\ pc' = "idle"
  /\ UNCHANGED <<board, ports, handlers, registrations, handler_variables,
                 handler_registry, dicts, is_running, is_paused, results,
                 actions, i, result, stack, polls, runs, returned, executed, trace,
                 stop_at>>
  /\ UNCHANGED <<timing_vars, ahk_vars, file_vars, unit_vars, pointer_calls>>

Next ==
  \/ Stop \/ Pause \/ Resume \/ RegisterHandler \/ SetVariable
  \/ ExecuteBoard \/ LoopHead \/ ControlCheck \/ PauseWait \/ ExecuteAction
  \/ SleepBefore \/ Dispatch \/ HandlerRun \/ RunRowCall \/ RunRowNext
  \/ AppendResult \/ SleepAfter \/ Finish \/ Propagate

Spec == Init /\ [][Next]_vars

\* the engine's thread is scheduled as long as it can take a step
Engine ==
  \/ ExecuteBoard \/ LoopHead \/ ControlCheck \/ PauseWait \/ ExecuteAction
  \/ SleepBefore \/ Dispatch \/ HandlerRun \/ RunRowCall \/ RunRowNext
  \/ AppendResult \/ SleepAfter \/ Finish \/ Propagate

FairSpec == Spec /\ WF_vars(Engine)

TypeOK ==
  /\ pc \in {"idle", "loop", "control", "pause", "exec", "sleep_before",
             "dispatch", "handler", "append", "sleep_after", "finish", "raised",
             "flat"}
  /\ is_running \in BOOLEAN
  /\ is_paused \in BOOLEAN
  /\ Len(stack) <= MaxDepth
  /\ polls \in 0..MaxPolls

(***************************************************************************)
(* get_all_actions on every board of a bounded shape.                      *)
(***************************************************************************)
RowIds == <<"r1", "r2", "r3">>

ActionIds == <<<<"a11", "a12", "a13">>, <<"a21", "a22", "a23">>,
               <<"a31", "a32", "a33">>>>

\* the board with the given row lengths and enabled flags
ShapedBoard(lens, rowOn, actOn) ==
  TaskBoard([r \in 1..Len(lens) |->
    TaskRow(RowIds[r], rowOn[r],
      [k \in 1..lens[r] |->
         [Log(ActionIds[r][k], "m") EXCEPT !.enabled = actOn[r][k]]])])

\* the enabled flags of a shape: one per action in place
ShapeFlags(m, lens) ==
  {actOn \in [1..m -> [1..MaxRowLen -> BOOLEAN]] :
     \A r \in 1..m : \A k \in 1..MaxRowLen : k > lens[r] => actOn[r][k]}

BoardInit ==
  /\ \E m \in 0..MaxRows :
       \E lens \in [1..m -> 0..MaxRowLen], rowOn \in [1..m -> BOOLEAN] :
         \E actOn \in ShapeFlags(m, lens) :
           board = ShapedBoard(lens, rowOn, actOn)
  /\ ports = AllPorts
  /\ handlers = DefaultHandlers
  /\ registrations = 0
  /\ handler_variables = [h \in HandlerIds |-> h]
  /\ handler_registry = [h \in HandlerIds |-> None]
  /\ dicts = [r \in HandlerIds \cup {"engine"} |-> EmptyMap]
  /\ is_running = FALSE
  /\ is_paused = FALSE
  /\ results = <<>>
  /\ actions = <<>>
  /\ i = 1
  /\ pc = "idle"
  /\ result = NoResult
  /\ stack = <<>>
  /\ polls = 0
  /\ runs = 0
  /\ outcome = "none"
  /\ returned = <<>>
  /\ executed = <<>>
  /\ trace = <<>>
  /\ stop_at = NoStop
  /\ TimingInit
  /\ pointer_calls = <<>>
  /\ AhkNone
  /\ NoFiles
  /\ NoUnits

\* a call of TaskBoard.get_all_actions
GetAllActions ==
  /\ pc = "idle"
  /\ actions' = get_all_actions(board)
  /\ pc' = "flat"
  /\ UNCHANGED <<board, ports, handlers, registrations, handler_variables,
                 handler_registry, dicts, is_running, is_paused, results, i,
                 result, stack, polls, runs, outcome, returned, executed, trace,
                 stop_at>>
  /\ UNCHANGED <<timing_vars, ahk_vars, file_vars, unit_vars, pointer_calls>>

BoardSpec == BoardInit /\ [][GetAllActions]_vars

(***************************************************************************)
(* AutoHotkey scripts: source lines, AhkV2Parser.                          *)
(* A source line is given by what the parser's patterns see in it after    *)
(* the comment is stripped: which pattern matches first (kind), the groups *)
(* of the match, the command the line splits into, and its brace counts.   *)
(***************************************************************************)
\* Path.parents of a resolved path: its proper prefixes
Parents(path) == {SubSeq(path, 1, n) : n \in 0..(Len(path) - 1)}

RECURSIVE ResolveFrom(_, _)
\* Path.resolve(): ".." components are folded into the path before them
ResolveFrom(done, rest) ==
  IF rest = <<>> THEN done
  ELSE IF Head(rest) = ".."
    THEN ResolveFrom(IF done = <<>> THEN <<>> ELSE Pop(done), Tail(rest))
  ELSE ResolveFrom(Append(done, Head(rest)), Tail(rest))

Resolve(path) == ResolveFrom(<<>>, path)

\* a line of a script; name, args and raw are the command it parses into
Line(kind, name, args, raw, opens, closes) ==
  [kind |-> kind, name |-> name, args |-> args, raw |-> raw,
   opens |-> opens, closes |-> closes, ver |-> <<>>, inline |-> ""]

BlankLine == Line("blank", "", <<>>, "", 0, 0)

\* #Requires AutoHotkey v<ver>, ver a string of digits and dots
RequiresLine(ver) == [Line("requires", "", <<>>, "", 0, 0) EXCEPT !.ver = ver]

\* name(params) {
FuncLine(name) == Line("func", name, <<>>, name \o "() {", 1, 0)

\* key:: {      and      key:: command
HotkeyBlockLine(key) ==
  [Line("hotkey", key, <<>>, key \o ":: {", 1, 0) EXCEPT !.inline = "{"]

HotkeyInlineLine(key, cmd) ==
  [Line("hotkey", key, cmd.args, cmd.raw, 0, 0) EXCEPT !.inline = cmd.name]

\* a command line: name(args) or name args
CommandLine(name, args, raw) == Line("command", name, args, raw, 0, 0)

\* name := value at top level
AssignLine(name, raw) == Line("assign", name, <<>>, raw, 0, 0)

\* }
CloseLine == Line("command", "}", <<>>, "}", 0, 1)

\* AhkCommand(name, args, raw, line_no)
AhkCommand(name, args, raw, line_no) ==
  [name |-> name, args |-> args, raw |-> raw, line_no |-> line_no]

\* AhkV2Parser._parse_command on the text of a line
ParseCommand(line, line_no) == AhkCommand(line.name, line.args, line.raw, line_no)

\* AhkV2Parser._parse_commands: enumerate(lines, start=start_line)
ParseCommands(lines, start_line) ==
  LET kept == {k \in 1..Len(lines) : lines[k].raw # "" /\ lines[k].raw # "}"}
      Nth(n) == CHOOSE k \in kept : Cardinality({q \in kept : q < k}) = n - 1
  IN [n \in 1..Cardinality(kept) |->
        ParseCommand(lines[Nth(n)], start_line + Nth(n) - 1)]

RECURSIVE CollectFrom(_, _, _, _)
\* AhkV2Parser._collect_block: at is the 0-based index of the next line
CollectFrom(lines, at, depth, body) ==
  IF at >= Len(lines) THEN [body |-> body, i |-> at]
  ELSE LET line == lines[at + 1]
           d == depth + line.opens - line.closes
       IN IF line.kind = "blank" THEN CollectFrom(lines, at + 1, depth, body)
          ELSE IF d <= 0 THEN [body |-> body, i |-> at + 1]
          ELSE CollectFrom(lines, at + 1, d, Append(body, line))

CollectBlockFromZero(lines, start_index) == CollectFrom(lines, start_index, 0, <<>>)

CollectBlock(lines, start_index) == CollectFrom(lines, start_index, 1, <<>>)

\* dict[key] = value on a dict kept in insertion order
PutEntry(entries, key, value) ==
  IF \E k \in 1..Len(entries) : entries[k].key = key
    THEN [k \in 1..Len(entries) |->
            IF entries[k].key = key THEN [key |-> key, body |-> value]
            ELSE entries[k]]
    ELSE Append(entries, [key |-> key, body |-> value])

\* AhkScript()
EmptyScript ==
  [requires |-> None, globals |-> {}, top_level |-> <<>>, hotkeys |-> <<>>,
   functions |-> <<>>]

RECURSIVE ParseFrom(_, _, _)
\* AhkV2Parser.parse_text: the loop, i the 0-based index of the next line
ParseFrom(lines, at, script) ==
  IF at >= Len(lines) THEN script
  ELSE
    LET line == lines[at + 1]
        n == at + 1
        blk == CollectBlock(lines, n)
        body == ParseCommands(blk.body, blk.i - Len(blk.body))
    IN CASE line.kind = "blank" -> ParseFrom(lines, n, script)
         [] line.kind = "requires" ->
              ParseFrom(lines, n, [script EXCEPT !.requires = line.ver])
         [] line.kind = "global" ->
              ParseFrom(lines, n, [script EXCEPT !.globals = @ \cup {line.name}])
         [] line.kind = "func" ->
              ParseFrom(lines, blk.i,
                [script EXCEPT !.functions = PutEntry(@, line.name, body)])
         [] line.kind = "hotkey" ->
              IF line.inline # "" /\ line.inline # "{"
                THEN ParseFrom(lines, n,
                       [script EXCEPT !.hotkeys =
                          PutEntry(@, line.name,
                            <<AhkCommand(line.inline, line.args, line.raw, n)>>)])
                ELSE ParseFrom(lines, blk.i,
                       [script EXCEPT !.hotkeys = PutEntry(@, line.name, body)])
         [] line.kind = "assign" ->
              ParseFrom(lines, n, [script EXCEPT !.globals = @ \cup {line.name}])
         [] OTHER ->
              ParseFrom(lines, n,
                [script EXCEPT !.top_level = Append(@, ParseCommand(line, n))])

parse_text(lines) == ParseFrom(lines, 0, EmptyScript)

(***************************************************************************)
(* AhkValidator.                                                           *)
(***************************************************************************)
WINDOWS_ONLY_COMMANDS ==
  {"ComObject", "WinExist", "WinActivate", "ControlSend", "ControlClick"}

POTENTIALLY_DANGEROUS == {"Run", "RunWait", "DllCall", "RegWrite", "RegDelete"}

\* AhkDiagnostic(level, message, line_no); subject is the name the message
\* ends with
AhkDiagnostic(level, message, subject, line_no) ==
  [level |-> level, message |-> message, subject |-> subject, line_no |-> line_no]

RECURSIVE Bodies(_)
\* the bodies of a dict of command lists, concatenated in insertion order
Bodies(entries) ==
  IF entries = <<>> THEN <<>> ELSE Head(entries).body \o Bodies(Tail(entries))

\* all_cmds of validate
AllCommands(script) ==
  script.top_level \o Bodies(script.hotkeys) \o Bodies(script.functions)

\* str.startswith("2") on a version string
StartsWith2(ver) == Len(ver) > 0 /\ ver[1] = "2"

\* the diagnostics validate appends for the version directive
RequiresDiagnostics(script) ==
  IF script.requires = None \/ script.requires = <<>>
    THEN <<AhkDiagnostic("warning", "Missing #Requires AutoHotkey v2.0 directive",
                         "", 0)>>
  ELSE IF ~StartsWith2(script.requires)
    THEN <<AhkDiagnostic("error", "Unsupported AHK version", "", 0)>>
  ELSE <<>>

\* the diagnostics validate appends for one command
CommandDiagnostics(cmd, system) ==
  (IF cmd.name \in POTENTIALLY_DANGEROUS
     THEN <<AhkDiagnostic("warning", "Potentially dangerous command",
                          cmd.name, cmd.line_no)>>
     ELSE <<>>)
  \o (IF cmd.name \in WINDOWS_ONLY_COMMANDS /\ system # "Windows"
        THEN <<AhkDiagnostic("info", "Windows-specific command",
                             cmd.name, cmd.line_no)>>
        ELSE <<>>)

RECURSIVE CommandsDiagnostics(_, _)
CommandsDiagnostics(cmds, system) ==
  IF cmds = <<>> THEN <<>>
  ELSE CommandDiagnostics(Head(cmds), system)
       \o CommandsDiagnostics(Tail(cmds), system)

\* any(d.level == "error" for d in diagnostics)
HasErrorNever(diagnostics) == FALSE

HasError(diagnostics) ==
  \E k \in 1..Len(diagnostics) : diagnostics[k].level = "error"

\* AhkValidator.validate on a host whose platform.system() is system
validate(script, system) ==
  LET diagnostics == RequiresDiagnostics(script)
                       \o CommandsDiagnostics(AllCommands(script), system)
  IN [is_valid |-> ~HasError(diagnostics), diagnostics |-> diagnostics]

(***************************************************************************)
(* AhkToBoardTranslator.                                                   *)
(***************************************************************************)
\* str.lower() on the command and function names in use
Lower(s) ==
  CASE s = "Click" -> "click" [] s = "Send" -> "send" [] s = "Sleep" -> "sleep"
    [] s = "MsgBox" -> "msgbox" [] s = "ClipWait" -> "clipwait"
    [] s = "PixelWaitChange" -> "pixelwaitchange" [] s = "Main" -> "main"
    [] s = "Helper" -> "helper" [] s = "Run" -> "run"
    [] s = "WinActivate" -> "winactivate" [] s = "Try" -> "try"
    [] s = "Catch" -> "catch" [] s = "DoThing" -> "dothing"
    [] s = "Foo" -> "foo" [] s = "F" -> "f"
    [] OTHER -> s

\* int(text) for the argument texts in use; the others raise ValueError
IntOf ==
  ("-5" :> (0 - 5)) @@ ("0" :> 0) @@ ("1" :> 1) @@ ("2" :> 2) @@ ("5" :> 5) @@ ("10" :> 10)
    @@ ("100" :> 100) @@ ("200" :> 200)

\* float(text) * 1000 truncated, for the argument texts in use
MillisOf == ("0" :> 0) @@ ("1" :> 1000) @@ ("0.5" :> 500) @@ ("2" :> 2000)

\* AhkToBoardTranslator._safe_int
safe_int(value, default) == IF value \in DOMAIN IntOf THEN IntOf[value] ELSE default

\* AhkToBoardTranslator._extract_xy
ExtractYX(args) ==
  IF Len(args) >= 2
    THEN Coordinates(safe_int(args[Len(args)], 0), safe_int(args[Len(args) - 1], 0))
    ELSE Coordinates(0, 0)

extract_xy(args) ==
  IF Len(args) >= 2
    THEN Coordinates(safe_int(args[Len(args) - 1], 0), safe_int(args[Len(args)], 0))
    ELSE Coordinates(0, 0)

\* str(key).strip().strip('"').strip("{}").lower() on the key texts in use
KeyOf(text) ==
  CASE text = "{Enter}" -> "enter" [] text = "{Tab}" -> "tab" [] OTHER -> text

Max(x, y) == IF x >= y THEN x ELSE y

CONTROL_WORDS ==
  {"if", "for", "loop", "switch", "try", "catch", "throw", "return",
   "continue", "break", "else", "finally"}

KNOWN_COMMANDS ==
  {"winexist", "winactivate", "winwaitactive", "clipboard", "fileread",
   "fileappend", "filedelete", "fileexist", "msgbox", "comobject", "clipwait",
   "map", "array", "instr", "strsplit", "substr", "trim"}

\* raw texts that contain ":="
ASSIGNMENTS ==
  {"x := 1", "y := Foo()", "Sleep(n := 5)", "Helper(x := 1)", "Foo(x := 1)",
   "MsgBox(x := 1)", "Try x := 1"}

\* the outcome of _command_to_action: an Action with the diagnostics it
\* appended, or an exception
Translated(action, diags) == [kind |-> "action", action |-> action, diags |-> diags]

TranslateRaises == [kind |-> "raise", action |-> None, diags |-> <<>>]

\* Action(id=action_id, action_type=kind, name=name, metadata=md)
AhkAction(cmd, kind, name, md) ==
  [Action("ahk_line_" \o ToString(cmd.line_no) \o "_" \o Lower(cmd.name), kind, md)
     EXCEPT !.name = name]

\* AhkToBoardTranslator._command_to_action
command_to_action(cmd, function_row_ids) ==
  LET name == Lower(cmd.name)
      args == cmd.args
      pixel == [timeout_ms |-> 5000, check_interval_ms |-> 100]
  IN
  IF cmd.name \in DOMAIN function_row_ids
    THEN Translated(AhkAction(cmd, "RUN_ROW", "Call",
                      [row_id |-> function_row_ids[cmd.name],
                       wait_complete |-> TRUE]), <<>>)
  ELSE IF name = "click"
    THEN Translated([AhkAction(cmd, "MOUSE_CLICK", "AHK Click", <<>>)
                       EXCEPT !.coordinates = extract_xy(args)], <<>>)
  ELSE IF name = "send"
    THEN Translated([AhkAction(cmd, "KEY_PRESS", "AHK Send", <<>>)
                       EXCEPT !.key = IF args # <<>> THEN KeyOf(args[1]) ELSE ""],
                    <<>>)
  ELSE IF name = "sleep"
    THEN Translated([AhkAction(cmd, "WAIT_TIME", "AHK Sleep", <<>>)
                       EXCEPT !.delay_before_ms =
                         Max(IF args # <<>> THEN safe_int(args[1], 0) ELSE 0, 0)],
                    <<>>)
  ELSE IF name = "pixelwaitchange"
    THEN Translated([AhkAction(cmd, "WAIT_PIXEL_CHANGE", "AHK PixelWaitChange",
                        [timeout_ms |-> IF Len(args) >= 3
                                          THEN safe_int(args[3], 5000) ELSE 5000,
                         check_interval_ms |-> IF Len(args) >= 4
                                          THEN safe_int(args[4], 100) ELSE 100])
                       EXCEPT !.coordinates = extract_xy(args)], <<>>)
  ELSE IF name = "clipwait"
    THEN IF args # <<>> /\ args[1] \notin DOMAIN MillisOf
           THEN TranslateRaises
           ELSE Translated([AhkAction(cmd, "WAIT_TIME", "AHK ClipWait", <<>>)
                              EXCEPT !.delay_before_ms =
                                Max(0, IF args # <<>> THEN MillisOf[args[1]]
                                       ELSE 1000)], <<>>)
  ELSE IF name \in {"pixelgetcolor", "pixelsearch"}
    THEN Translated([AhkAction(cmd, "WAIT_PIXEL_CHANGE", "AHK", pixel)
                       EXCEPT !.coordinates = extract_xy(args)], <<>>)
  ELSE IF cmd.raw \in ASSIGNMENTS
    THEN Translated(AhkAction(cmd, "LOG", "AHK Assign",
                      [message |-> cmd.raw, log_level |-> "DEBUG"]), <<>>)
  ELSE IF name \in CONTROL_WORDS
    THEN Translated(AhkAction(cmd, "LOG", "AHK",
                      [message |-> cmd.raw, log_level |-> "DEBUG"]), <<>>)
  ELSE IF name \in KNOWN_COMMANDS
    THEN Translated(AhkAction(cmd, "LOG", "AHK",
                      [message |-> cmd.raw, log_level |-> "INFO"]), <<>>)
  ELSE Translated(AhkAction(cmd, "LOG", "AHK Unsupported",
                    [message |-> cmd.raw, log_level |-> "WARNING"]),
                  <<AhkDiagnostic("info", "Unsupported command in emulation",
                                  cmd.name, cmd.line_no)>>)

RECURSIVE TranslateAll(_, _)
\* the loop over commands: actions and diagnostics so far, or the exception
TranslateAll(cmds, function_row_ids) ==
  IF cmds = <<>> THEN [kind |-> "ok", actions |-> <<>>, diags |-> <<>>]
  ELSE LET t == command_to_action(Head(cmds), function_row_ids)
           rest == TranslateAll(Tail(cmds), function_row_ids)
       IN IF t.kind = "raise" \/ rest.kind = "raise"
            THEN [kind |-> "raise", actions |-> <<>>, diags |-> <<>>]
            ELSE [kind |-> "ok", actions |-> <<t.action>> \o rest.actions,
                  diags |-> t.diags \o rest.diags]

\* function_row_ids of to_board
FunctionRowIds(script) ==
  [n \in {script.functions[k].key : k \in 1..Len(script.functions)} |->
     "row_fn_" \o Lower(n)]

\* the commands of the main row
MainCommandsOfHotkey(script) ==
  IF script.top_level # <<>> THEN script.top_level
  ELSE IF script.hotkeys # <<>> THEN script.hotkeys[1].body
  ELSE IF \E k \in 1..Len(script.functions) : script.functions[k].key = "Main"
    THEN <<AhkCommand("Main", <<>>, "Main()", 0)>>
  ELSE <<>>

MainCommands(script) ==
  IF script.top_level # <<>> THEN script.top_level
  ELSE IF script.hotkeys # <<>> /\ script.hotkeys[1].body # <<>>
    THEN script.hotkeys[1].body
  ELSE IF \E k \in 1..Len(script.functions) : script.functions[k].key = "Main"
    THEN <<AhkCommand("Main", <<>>, "Main()", 0)>>
  ELSE <<>>

\* board.add_row(TaskRow(id=row_id, name=f"Fn: {fn_name}")) for each function
EmptyFunctionRows(fns, ids) ==
  [k \in 1..Len(fns) |-> [TaskRow(ids[fns[k].key], TRUE, <<>>) EXCEPT !.name = "Fn"]]

\* next((r for r in board.rows if r.id == row_id), None): the first such row
FirstRowWithId(rows, row_id) ==
  CHOOSE r \in 1..Len(rows) :
    /\ rows[r].id = row_id
    /\ \A q \in 1..(r - 1) : rows[q].id # row_id

RECURSIVE FillRows(_, _, _)
\* the loop that fills the rows of the functions: each body goes to the
\* first row that has the function's row id
FillRows(rows, fns, ids) ==
  IF fns = <<>> THEN [kind |-> "ok", rows |-> rows, diags |-> <<>>]
  ELSE LET t == TranslateAll(Head(fns).body, ids)
           r == FirstRowWithId(rows, ids[Head(fns).key])
           rest == FillRows([rows EXCEPT ![r].actions = @ \o t.actions],
                            Tail(fns), ids)
       IN IF t.kind = "raise" \/ rest.kind = "raise"
            THEN [kind |-> "raise", rows |-> <<>>, diags |-> <<>>]
            ELSE [kind |-> "ok", rows |-> rest.rows, diags |-> t.diags \o rest.diags]

\* the rows of the functions, filled: a sequence of rows or the exception
FunctionRows(fns, ids) == FillRows(EmptyFunctionRows(fns, ids), fns, ids)

\* AhkToBoardTranslator.to_board: the board and diagnostics, or the exception
to_board(script) ==
  LET ids == FunctionRowIds(script)
      main == TranslateAll(MainCommands(script), ids)
      fns == FunctionRows(script.functions, ids)
  IN IF main.kind = "raise" \/ fns.kind = "raise"
       THEN [kind |-> "raise", board |-> TaskBoard(<<>>), diags |-> <<>>]
       ELSE [kind |-> "ok",
             board |-> [TaskBoard(<<[TaskRow("row_main", TRUE, main.actions)
                                       EXCEPT !.name = "AHK Main"]>> \o fns.rows)
                          EXCEPT !.id = "ahk", !.name = "Imported AHK v2"],
             diags |-> main.diags \o fns.diags]

(***************************************************************************)
(* AhkRunner.execute_file.  One call is made, on a request chosen at the   *)
(* start: the path and allowed root as given, the mode, the file at the    *)
(* path, and the host (platform.system(), whether an AutoHotkey executable *)
(* is installed, whether the caller runs inside an event loop).            *)
(***************************************************************************)
\* AhkExecutionResult(success, mode, return_code, diagnostics, board)
AhkExecutionResult(success, mode, return_code, diagnostics, b) ==
  [success |-> success, mode |-> mode, return_code |-> return_code,
   diagnostics |-> diagnostics, board |-> b]

\* root not in path.parents and path != root
OutsideRootNever(path, root) == FALSE

OutsideRoot(path, root) == root \notin Parents(path) /\ path # root

\* AhkRunner.find_ahk_executable: truthy or None
FindsExecutableAlways(req) == TRUE

find_ahk_executable(req) == req.system = "Windows" /\ req.installed

\* what subprocess.run does with the script
NativeOutcomes == {"exit0", "exit1", "timeout", "oserror"}

\* AhkRunner._execute_native
execute_native(o, diagnostics) ==
  CASE o = "exit0" -> AhkExecutionResult(TRUE, "native", 0, diagnostics, NoBoard)
    [] o = "exit1" -> AhkExecutionResult(FALSE, "native", 1, diagnostics, NoBoard)
    [] o = "timeout" ->
         AhkExecutionResult(FALSE, "native", -1,
           Append(diagnostics,
                  AhkDiagnostic("error", "Native AHK execution timeout", "", 0)),
           NoBoard)
    [] OTHER ->
         AhkExecutionResult(FALSE, "native", -1,
           Append(diagnostics, AhkDiagnostic("error", "Native run failed", "", 0)),
           NoBoard)

\* how the part of execute_file before the engine runs ends: it returns a
\* result, an exception leaves it, or it hands a board to the engine;
\* calls lists the components it has called
Returns(calls, r) ==
  [kind |-> "return", calls |-> calls, result |-> r, diagnostics |-> <<>>,
   board |-> NoBoard]

Raises(calls) ==
  [kind |-> "raise", calls |-> calls, result |-> NoAhkResult,
   diagnostics |-> <<>>, board |-> NoBoard]

Emulates(calls, diagnostics, b) ==
  [kind |-> "emulate", calls |-> calls, result |-> NoAhkResult,
   diagnostics |-> diagnostics, board |-> b]

EmulationFailed == AhkDiagnostic("error", "Emulation failed", "", 0)

\* AhkRunner._execute_emulated up to the engine's run
execute_emulated(req, script, diagnostics) ==
  LET t == to_board(script)
      calls == <<"parser", "validator", "translator">>
  IN IF t.kind = "raise" THEN Raises(calls)
     ELSE IF req.in_loop
       THEN Returns(calls,
              AhkExecutionResult(FALSE, "emulated", 0,
                Append(diagnostics \o t.diags, EmulationFailed), t.board))
     ELSE Emulates(Append(calls, "engine"), diagnostics \o t.diags, t.board)

\* AhkRunner.execute_file up to the engine's run; o is what the native
\* process does if it is started
execute_file(req, o) ==
  LET path == Resolve(req.filepath)
      root == Resolve(req.allowed_root.path)
      script == parse_text(req.file.lines)
      validation == validate(script, req.system)
      selected_mode ==
        IF req.mode = "auto"
          THEN (IF find_ahk_executable(req) THEN "native" ELSE "emulated")
          ELSE req.mode
  IN
  IF req.allowed_root.present /\ OutsideRoot(path, root)
    THEN Returns(<<>>,
           AhkExecutionResult(FALSE, "none", 0,
             <<AhkDiagnostic("error", "Path outside allowed root", "", 0)>>,
             NoBoard))
  ELSE IF ~req.file.readable THEN Raises(<<"parser">>)
  ELSE IF ~validation.is_valid
    THEN Returns(<<"parser", "validator">>,
           AhkExecutionResult(FALSE, "none", 0, validation.diagnostics, NoBoard))
  ELSE IF selected_mode = "native"
    THEN IF ~find_ahk_executable(req)
           THEN Returns(<<"parser", "validator">>,
                  AhkExecutionResult(FALSE, "native", 0,
                    <<AhkDiagnostic("error", "AutoHotkey executable not found",
                                    "", 0)>>, NoBoard))
           ELSE Returns(<<"parser", "validator", "native">>,
                        execute_native(o, validation.diagnostics))
  ELSE IF selected_mode = "emulated"
    THEN execute_emulated(req, script, validation.diagnostics)
  ELSE Returns(<<"parser", "validator">>,
         AhkExecutionResult(FALSE, "none", 0,
           <<AhkDiagnostic("error", "Unknown mode", "", 0)>>, NoBoard))

engine_vars ==
  <<ports, handlers, registrations, handler_variables, handler_registry, dicts,
    is_running, is_paused, results, actions, i, pc, result, stack, polls, runs,
    outcome, returned, executed, trace, stop_at, execution_time, sleeps,
    pointer_calls>>

\* the call of execute_file, up to its return or to the start of the run
ExecuteFile ==
  /\ ahk_pc = "called"
  /\ pc = "idle"
  /\ \E o \in NativeOutcomes :
       \E st \in {execute_file(request, o)} :
         /\ invoked' = st.calls
         /\ pending' = [diagnostics |-> st.diagnostics, board |-> st.board]
         /\ CASE st.kind = "emulate" ->
                   /\ ahk_pc' = "emulating"
                   /\ ahk_result' = ahk_result
                   /\ board' = st.board
                   /\ StartRun(st.board)
              [] st.kind = "return" ->
                   /\ ahk_pc' = "returned"
                   /\ ahk_result' = st.result
                   /\ UNCHANGED <<board, engine_vars>>
              [] OTHER ->
                   /\ ahk_pc' = "raised"
                   /\ ahk_result' = ahk_result
                   /\ UNCHANGED <<board, engine_vars>>
  /\ UNCHANGED <<request, file_vars, unit_vars>>

\* all(r.success for r in results) if results else True
AllSuccessAny(rs) == rs = <<>> \/ \E k \in 1..Len(rs) : rs[k].success

AllSuccess(rs) == rs = <<>> \/ \A k \in 1..Len(rs) : rs[k].success

\* _execute_emulated after the engine's run: the result it returns
EmulatedDone ==
  /\ ahk_pc = "emulating"
  /\ pc = "idle"
  /\ outcome \in {"returned", "raised"}
  /\ ahk_pc' = "returned"
  /\ ahk_result' =
       IF outcome = "returned"
         THEN AhkExecutionResult(AllSuccess(returned), "emulated", 0,
                                 pending.diagnostics, pending.board)
         ELSE AhkExecutionResult(FALSE, "emulated", 0,
                Append(pending.diagnostics, EmulationFailed), pending.board)
  /\ UNCHANGED <<board, engine_vars, request, invoked, pending, file_vars, unit_vars>>

(***************************************************************************)
(* Scripts, paths and hosts execute_file is called on.                     *)
(***************************************************************************)
\* a command written as a call, name(args)
CallLine(name, args) == CommandLine(name, args, name \o "()")

\* the script of the integration test
SampleScript ==
  <<RequiresLine(<<"2", ".", "0">>),
    [Line("global", "SapSession", <<>>, "", 0, 0) EXCEPT !.raw = "global"],
    HotkeyBlockLine("F2"),
    CallLine("Click", <<"100", "200">>),
    CallLine("Sleep", <<"5">>),
    CallLine("Send", <<"{Enter}">>),
    CallLine("WinActivate", <<"SAP Logon">>),
    CloseLine,
    BlankLine,
    FuncLine("DoThing"),
    Line("command", "Try", <<"{">>, "Try {", 1, 0),
    CallLine("MsgBox", <<"x">>),
    CloseLine,
    CloseLine>>

\* no #Requires line; a dangerous and an unknown command
PlainScript ==
  <<CallLine("Run", <<"calc">>), CallLine("Foo", <<>>), AssignLine("x", "x := 1")>>

\* #Requires AutoHotkey v1.1
V1Script == <<RequiresLine(<<"1", ".", "1">>), CallLine("MsgBox", <<"hi">>)>>

\* #Requires AutoHotkey v20.0
V20Script == <<RequiresLine(<<"2", "0", ".", "0">>), CallLine("MsgBox", <<"hi">>)>>

\* ClipWait("abc"): float() of the argument raises
ClipWaitScript ==
  <<RequiresLine(<<"2", ".", "0">>), CallLine("MsgBox", <<"hi">>),
    CallLine("ClipWait", <<"abc">>)>>

\* a pixel wait, whose screen reads can raise
PixelScript ==
  <<RequiresLine(<<"2", ".", "0">>), CallLine("PixelWaitChange", <<"1", "2">>),
    CallLine("MsgBox", <<"hi">>)>>

\* only the directive: the translated board has no actions
DirectiveScript == <<RequiresLine(<<"2", ".", "0">>)>>

\* only a function Main: the main row calls its row
MainScript ==
  <<RequiresLine(<<"2">>), FuncLine("Main"), CallLine("Send", <<"{Tab}">>),
    CloseLine>>

\* Sleep(0), Sleep(-5), Sleep(abc), Sleep() and Sleep(10)
SleepScript ==
  <<RequiresLine(<<"2", ".", "0">>), CallLine("Sleep", <<"0">>),
    CallLine("Sleep", <<"-5">>), CallLine("Sleep", <<"abc">>),
    CallLine("Sleep", <<>>), CallLine("Sleep", <<"10">>)>>

Scripts ==
  {SampleScript, PlainScript, V1Script, V20Script, ClipWaitScript, PixelScript,
   DirectiveScript, MainScript, SleepScript}

\* the file at the path: readable with the lines of a script, or a path
\* read_text raises on (missing, a directory, not decodable)
File(lines) == [readable |-> TRUE, lines |-> lines]

Unreadable == [readable |-> FALSE, lines |-> <<>>]

Files == {File(lines) : lines \in Scripts} \cup {Unreadable}

\* Optional allowed_root
Root(path) == [present |-> TRUE, path |-> path]

NoRoot == [present |-> FALSE, path |-> <<>>]

\* paths as sequences of components below the file system's root
FilePaths ==
  {<<"td1", "sample.ahk">>, <<"td1", "..", "td2", "sample.ahk">>, <<"td1">>}

Roots == {NoRoot, Root(<<"td1">>), Root(<<"td2">>), Root(<<"td1", "sub", "..">>)}

Modes == {"auto", "native", "emulated", "turbo"}

\* the host: platform.system(), an executable installed, a running loop
Host(system, installed, in_loop) ==
  [system |-> system, installed |-> installed, in_loop |-> in_loop]

Hosts ==
  {Host("Linux", FALSE, FALSE), Host("Linux", FALSE, TRUE),
   Host("Windows", TRUE, FALSE), Host("Windows", FALSE, FALSE)}

\* the paths that name a directory
IsDirectory(path) == Resolve(path) \in {<<"td1">>, <<"td2">>}

Request(filepath, allowed_root, mode, file, host) ==
  [filepath |-> filepath, allowed_root |-> allowed_root, mode |-> mode,
   file |-> file, system |-> host.system, installed |-> host.installed,
   in_loop |-> host.in_loop]

\* the engine as constructed
EngineIdle ==
  /\ handlers = DefaultHandlers
  /\ registrations = 0
  /\ handler_variables = [h \in HandlerIds |-> h]
  /\ handler_registry = [h \in HandlerIds |-> None]
  /\ dicts = [r \in HandlerIds \cup {"engine"} |-> EmptyMap]
  /\ is_running = FALSE
  /\ is_paused = FALSE
  /\ results = <<>>
  /\ actions = <<>>
  /\ i = 1
  /\ pc = "idle"
  /\ result = NoResult
  /\ stack = <<>>
  /\ polls = 0
  /\ runs = 0
  /\ outcome = "none"
  /\ returned = <<>>
  /\ executed = <<>>
  /\ trace = <<>>
  /\ stop_at = NoStop
  /\ TimingInit
  /\ pointer_calls = <<>>

AhkInit ==
  /\ board = TaskBoard(<<>>)
  /\ ports = AllPorts
  /\ EngineIdle
  /\ ahk_pc = "called"
  /\ \E filepath \in FilePaths, allowed_root \in Roots, mode \in Modes :
       \E file \in Files, host \in Hosts :
         /\ IsDirectory(filepath) => ~file.readable
         /\ request = Request(filepath, allowed_root, mode, file, host)
  /\ invoked = <<>>
  /\ pending = NoPending
  /\ ahk_result = NoAhkResult
  /\ NoFiles
  /\ NoUnits

\* the translator sets no delay_after_ms, so execute_action never sleeps
\* after a handler
AhkNext ==
  \/ ExecuteFile \/ EmulatedDone
  \/ Stop \/ Pause \/ Resume
  \/ LoopHead \/ ControlCheck \/ PauseWait \/ ExecuteAction
  \/ SleepBefore \/ Dispatch \/ HandlerRun \/ RunRowCall \/ RunRowNext
  \/ AppendResult \/ Finish \/ Propagate

AhkSpec == AhkInit /\ [][AhkNext]_vars

(***************************************************************************)
(* Properties.                                                             *)
(***************************************************************************)
\* the Result of a conditional whose condition held and whose if_true is break
IsBreakTrue(r) == r.message.cond = "True" /\ r.message.decision = "break"

\* C1: once a CONDITIONAL dispatched by the engine has evaluated true with
\* if_true = "break", its call is the last handler call of the run (no action
\* is dispatched after it) and its Result is the last of the result list, also
\* of the list execute_board returns.
C1_BreakHaltsRun ==
  /\ pc = "append" /\ IsBreakTrue(result)
       => /\ Last(trace).via = "engine"
          /\ Last(trace).pos = i
          /\ Last(trace).id = result.action_id
  /\ \A k \in 1..Len(results) :
       IsBreakTrue(results[k])
         => /\ k = Len(results)
            /\ Last(trace).via = "engine"
            /\ Last(trace).id = results[k].action_id
            /\ pc \in {"loop", "control", "sleep_after", "finish", "idle"}
            /\ pc = "idle" => outcome = "returned" /\ Last(returned) = results[k]

\* a run returned a list that ends with a break conditional's Result, leaving
\* actions of the flattened sequence undispatched
C1_Witness ==
  /\ pc = "idle" /\ outcome = "returned"
  /\ returned # <<>> /\ IsBreakTrue(Last(returned))
  /\ Len(returned) < Len(actions)
  /\ ~stop_at.called

\* C2: after stop() was called during a run while the engine was not paused,
\* the engine dispatches no action at a position after the one the loop was
\* at, no such action has a Result, and the run returns with is_running false.
C2_StopHaltsSequence ==
  stop_at.called /\ ~stop_at.paused
    => /\ \A n \in 1..Len(trace) :
            trace[n].via = "engine" => trace[n].pos <= stop_at.pos
       /\ \A k \in 1..Len(results) :
            \E p \in 1..stop_at.pos :
              p <= Len(actions) /\ actions[p].id = results[k].action_id
       /\ pc \in {"pause", "exec", "sleep_before", "dispatch", "handler", "append"}
            => i <= stop_at.pos
       /\ pc = "idle" /\ outcome = "returned" => ~is_running

\* a run stopped during a handler returned before the end of its sequence,
\* with no break or skip to end it
C2_Witness ==
  /\ pc = "idle" /\ outcome = "returned"
  /\ stop_at.called /\ ~stop_at.paused
  /\ stop_at.pos >= 1 /\ stop_at.pos < Len(actions)
  /\ Len(returned) = stop_at.pos
  /\ ~BreakRequested(Variables)

\* C3: when stop() was called with the engine in the pause wait,
\* execute_board returns unless resume() is called.
C3_StopEndsPause ==
  (pc = "pause" /\ is_paused /\ ~is_running /\ stop_at.paused)
    ~> (pc = "idle" \/ ~is_paused)

\* C4: a step of the engine at an iteration boundary with _skip_next_count =
\* n > 0 and no break sets it to n - 1 and moves to the next position with
\* no handler call and no Result; the engine calls a handler only with the
\* count at 0, so a skip_next decision of a conditional it dispatched leaves
\* the count at 1: exactly the next action is skipped.
C4_SkipNext ==
  /\ [][pc = "control" /\ pc' # "control" /\ ~BreakRequested(Variables)
          /\ SkipCount(Variables) > 0
        => /\ SkipCount(Variables') = SkipCount(Variables) - 1
           /\ i' = i + 1 /\ pc' = "loop"
           /\ trace' = trace /\ results' = results /\ executed' = executed]_vars
  /\ [](pc \in {"pause", "exec", "sleep_before", "dispatch"}
          => SkipCount(Variables) = 0)
  /\ [](pc = "append" /\ result.message.decision = "skip_next"
          => SkipCount(Variables) = 1)

\* a run that no stop or break cut short returned: a conditional decided
\* skip_next, the next action has no Result and the one after it has one
C4_Witness ==
  /\ pc = "idle" /\ outcome = "returned" /\ ~stop_at.called
  /\ ~BreakRequested(Variables)
  /\ \E p \in 1..(Len(actions) - 2) :
       /\ \E k \in 1..Len(returned) :
            /\ returned[k].action_id = actions[p].id
            /\ returned[k].message.decision = "skip_next"
       /\ \A k \in 1..Len(returned) : returned[k].action_id # actions[p + 1].id
       /\ \E k \in 1..Len(returned) : returned[k].action_id = actions[p + 2].id

\* C5: the list a run returns holds one Result, in order, for each action
\* execute_action was called on.
C5_OneResultPerAction ==
  pc = "idle" /\ outcome = "returned"
    => [k \in 1..Len(returned) |-> returned[k].action_id] = executed

\* positions <<row, index>> of the enabled actions of the enabled rows
EnabledPlaces(b) ==
  UNION {{<<r, k>> : k \in {n \in 1..Len(b.rows[r].actions) :
                              b.rows[r].enabled /\ b.rows[r].actions[n].enabled}} :
           r \in 1..Len(b.rows)}

Before(p, q) == p[1] < q[1] \/ (p[1] = q[1] /\ p[2] < q[2])

\* C6: get_all_actions returns exactly the enabled actions of the enabled
\* rows, each at the rank of its place in row order then order inside the
\* row; no action of a disabled row is in it.
C6_GetAllActions ==
  pc = "flat"
    => LET P == EnabledPlaces(board)
       IN /\ Len(actions) = Cardinality(P)
          /\ \A p \in P :
               actions[1 + Cardinality({q \in P : Before(q, p)})]
                 = board.rows[p[1]].actions[p[2]]
          /\ \A r \in 1..Len(board.rows) :
               ~board.rows[r].enabled
                 => \A k \in 1..Len(board.rows[r].actions), n \in 1..Len(actions) :
                      actions[n].id # board.rows[r].actions[k].id

\* flattened: a disabled row holding an enabled action, behind or before an
\* enabled row with a disabled action and an enabled one
C6_Witness ==
  /\ pc = "flat"
  /\ actions # <<>>
  /\ \E r \in 1..Len(board.rows) :
       /\ ~board.rows[r].enabled
       /\ \E k \in 1..Len(board.rows[r].actions) : board.rows[r].actions[k].enabled
  /\ \E r \in 1..Len(board.rows) :
       /\ board.rows[r].enabled
       /\ \E k \in 1..Len(board.rows[r].actions) : ~board.rows[r].actions[k].enabled

\* C7: no exception leaves execute_board.
C7_NeverRaises == pc # "raised" /\ outcome # "raised"

\* C8: when the registry has no handler for the kind of the action,
\* execute_action calls no handler, returns a failure whose error names the
\* kind, and the loop goes on to the next position.
C8_MissingHandler ==
  [][pc = "dispatch" /\ pc' # "dispatch"
       /\ get_handler(handlers, actions[i].action_type) = None
     => /\ result'.success = FALSE
        /\ result'.action_id = actions[i].id
        /\ result'.error # NoError
        /\ result'.error.kind = actions[i].action_type
        /\ trace' = trace /\ dicts' = dicts
        /\ pc' = "loop" /\ i' = i + 1]_vars

\* the handler of a later action runs after execute_action returned the
\* missing-handler failure
C8_Witness ==
  /\ pc = "handler"
  /\ result.error.text = "no handler"
  /\ i > 1

\* index in trace of the last call made by the engine, 0 if none
LastEngineCall ==
  IF \E n \in 1..Len(trace) : trace[n].via = "engine"
    THEN CHOOSE n \in 1..Len(trace) :
           /\ trace[n].via = "engine"
           /\ \A m \in (n + 1)..Len(trace) : trace[m].via # "engine"
    ELSE 0

\* the calls made directly by the RUN_ROW action the engine dispatched last
DirectSubCalls ==
  SelectSeq(SubSeq(trace, LastEngineCall + 1, Len(trace)), LAMBDA e : e.depth = 1)

Ids(seq) == [k \in 1..Len(seq) |-> seq[k].id]

\* C9: when the RUN_ROW action the engine dispatched returns: if its row
\* exists and is enabled, the handler called each enabled action of the row
\* once, in row order, with the engine's registry and variables map, and no
\* Result was added; otherwise it called nothing and returned a failure.
C9_RunRowDispatchesRow ==
  pc = "append" /\ actions[i].action_type = "RUN_ROW"
      /\ get_handler(handlers, "RUN_ROW") = "RUN_ROW"
    => LET r == FindRow(board, Get(actions[i].metadata, "row_id", ""))
       IN /\ Len(results) < Len(executed)
          /\ IF r # 0 /\ board.rows[r].enabled /\ "_board" \in DOMAIN Variables
               THEN /\ Ids(DirectSubCalls) = Ids(EnabledActions(board.rows[r]))
                    /\ \A k \in 1..Len(DirectSubCalls) :
                         /\ DirectSubCalls[k].via = "run_row"
                         /\ DirectSubCalls[k].variables = "engine"
                         /\ DirectSubCalls[k].registry = "registry"
               ELSE /\ LastEngineCall = Len(trace)
                    /\ ~result.success

\* the action of the board with the given id
ActionOf(b, id) ==
  CHOOSE a \in UNION {{b.rows[r].actions[k] : k \in 1..Len(b.rows[r].actions)} :
                        r \in 1..Len(b.rows)} : a.id = id

\* calls of the LOG handler in trace that have written their message
LogCallsDone ==
  {n \in 1..Len(trace) :
     /\ trace[n].handler = "LOG"
     /\ ~(n = Len(trace) /\ pc = "handler" /\ stack = <<>>)}

\* C10: every handler call of a run, by the engine or by a RUN_ROW call, is
\* made with handler.variables bound to the engine's map, no other map is
\* ever written, the message written by the last LOG call is the value in the
\* engine's map, and a conditional dispatched later reads that value.
C10_SharedVariables ==
  /\ \A n \in 1..Len(trace) : trace[n].variables = "engine"
  /\ pc = "handler" => handler_variables[Last(trace).handler] = "engine"
  /\ \A h \in HandlerIds : dicts[h] = EmptyMap
  /\ LogCallsDone # {}
       => LET n == CHOOSE m \in LogCallsDone : \A q \in LogCallsDone : q <= m
              a == ActionOf(board, trace[n].id)
          IN Get(Variables, "last_log_message", None) = Get(a.metadata, "message", a.id)
  /\ pc = "append" /\ Last(trace).via = "engine" /\ Last(trace).handler = "CONDITIONAL"
       /\ Get(actions[i].metadata, "condition_type", "variable_equals") = "variable_equals"
       => result.message.cond =
            IF Get(Variables, Get(actions[i].metadata, "variable_name", ""), "")
                 = Get(actions[i].metadata, "condition_value", "")
              THEN "True" ELSE "False"

\* inside a RUN_ROW call a conditional has read the message a LOG call of the
\* same call wrote, and its skip_next decision is in the engine's map
C10_Witness ==
  /\ pc = "handler" /\ stack # <<>>
  /\ SkipCount(Variables) >= 1
  /\ Get(Variables, "last_log_message", "") = "m1"
  /\ \E n \in 1..Len(trace) :
       /\ trace[n].via = "run_row" /\ trace[n].handler = "CONDITIONAL"
       /\ \E m \in 1..(n - 1) : trace[m].via = "run_row" /\ trace[m].handler = "LOG"

(***************************************************************************)
(* Properties of execute_file.                                             *)
(***************************************************************************)
Range(seq) == {seq[k] : k \in 1..Len(seq)}

\* root is path or one of the directories above it
IsPrefix(root, path) ==
  Len(root) <= Len(path) /\ SubSeq(path, 1, Len(root)) = root

\* the request names an allowed root and a script path that resolves to a
\* place not inside it
RequestOutside ==
  /\ request.allowed_root.present
  /\ ~IsPrefix(Resolve(request.allowed_root.path), Resolve(request.filepath))

\* the script of the request and what the validator says about it
RequestScript == parse_text(request.file.lines)

RequestValidation == validate(RequestScript, request.system)

ErrorReported ==
  \E d \in Range(RequestValidation.diagnostics) : d.level = "error"

\* the call got as far as reading and validating the script
RequestRead == ~RequestOutside /\ request.file.readable

Messages(r) == {d.message : d \in Range(r.diagnostics)}

\* the engine has not been run and no handler was dispatched
EngineUntouched == runs = 0 /\ pc = "idle" /\ trace = <<>> /\ results = <<>>

\* C11: when the resolved script path is not inside the resolved
\* allowed_root, execute_file returns success=false, mode "none", with the
\* diagnostic that the path is outside the allowed root, and has called
\* none of parser, validator, translator, engine, native interpreter.
C11_OutsideAllowedRoot ==
  (ahk_pc # "called" /\ RequestOutside) =>
    /\ ahk_pc = "returned"
    /\ ~ahk_result.success
    /\ ahk_result.mode = "none"
    /\ Messages(ahk_result) = {"Path outside allowed root"}
    /\ invoked = <<>>
    /\ EngineUntouched

\* a call refused although the path as written starts with the root
C11_Witness ==
  /\ ahk_pc = "returned"
  /\ RequestOutside
  /\ request.filepath = <<"td1", "..", "td2", "sample.ahk">>
  /\ request.allowed_root = Root(<<"td1">>)
  /\ request.file.readable
  /\ ahk_result.mode = "none"

\* C12: when the validator reports an error-level diagnostic for the
\* script, execute_file returns success=false, mode "none" and exactly the
\* validator's diagnostics, in every requested mode, and starts neither
\* the native process nor an engine run.
C12_InvalidScript ==
  (ahk_pc # "called" /\ RequestRead /\ ErrorReported) =>
    /\ ahk_pc = "returned"
    /\ ~ahk_result.success
    /\ ahk_result.mode = "none"
    /\ ahk_result.diagnostics = RequestValidation.diagnostics
    /\ "native" \notin Range(invoked)
    /\ "engine" \notin Range(invoked)
    /\ EngineUntouched

\* an invalid script refused in native mode on a host with an interpreter
C12_Witness ==
  /\ ahk_pc = "returned"
  /\ RequestRead
  /\ ErrorReported
  /\ request.mode = "native"
  /\ request.system = "Windows" /\ request.installed
  /\ ahk_result.mode = "none"

\* C13: execute_file never raises: a missing or unreadable file, a failure
\* in the translator and a failure in the engine are each reported as a
\* result with success=false and a diagnostic.
C13_NeverRaises ==
  ahk_pc # "called" /\ ahk_pc # "emulating" =>
    /\ ahk_pc = "returned"
    /\ (~request.file.readable \/ outcome = "raised") =>
         ~ahk_result.success /\ ahk_result.diagnostics # <<>>

\* C14: when an emulated run completes, success is the conjunction of the
\* success flags of the engine's result list (true for the empty list),
\* the mode is "emulated" and the board is the translated board.
C14_EmulatedSuccess ==
  (ahk_pc = "returned" /\ "engine" \in Range(invoked) /\ outcome = "returned") =>
    /\ ahk_result.success = (\A r \in Range(results) : r.success)
    /\ ahk_result.mode = "emulated"
    /\ ahk_result.board = to_board(RequestScript).board
    /\ ahk_result.board = board

\* a completed emulated run with a failed and a successful Result
C14_Witness ==
  /\ ahk_pc = "returned"
  /\ "engine" \in Range(invoked)
  /\ outcome = "returned"
  /\ \E r \in Range(results) : r.success
  /\ \E r \in Range(results) : ~r.success
  /\ ~ahk_result.success

\* C15: mode "native" on a valid script with no interpreter executable:
\* success=false, mode "native", the diagnostic that the executable was
\* not found, no process started and no emulation (no handler dispatched).
C15_NativeWithoutExecutable ==
  (/\ ahk_pc # "called"
   /\ RequestRead
   /\ ~ErrorReported
   /\ request.mode = "native"
   /\ ~(request.system = "Windows" /\ request.installed)) =>
    /\ ahk_pc = "returned"
    /\ ~ahk_result.success
    /\ ahk_result.mode = "native"
    /\ Messages(ahk_result) = {"AutoHotkey executable not found"}
    /\ "native" \notin Range(invoked)
    /\ "translator" \notin Range(invoked)
    /\ "engine" \notin Range(invoked)
    /\ EngineUntouched

\* the test's case: the sample script in native mode on a host without
\* AutoHotkey
C15_Witness ==
  /\ ahk_pc = "returned"
  /\ request.mode = "native"
  /\ request.file = File(SampleScript)
  /\ request.system = "Linux"
  /\ ~RequestOutside
  /\ ahk_result.mode = "native"
  /\ ~ahk_result.success

\* the major version of a version string: the text before the first dot
Major(ver) ==
  IF \E k \in 1..Len(ver) : ver[k] = "."
    THEN SubSeq(ver, 1, (CHOOSE k \in 1..Len(ver) :
                           ver[k] = "." /\ \A q \in 1..(k - 1) : ver[q] # ".") - 1)
    ELSE ver

\* C16: is_valid is false exactly when some diagnostic has level error,
\* which is exactly when a version directive is present with a major
\* version other than 2; without a directive there is a warning and
\* is_valid is true.
C16_ValidIffMajorTwo ==
  (ahk_pc # "called" /\ RequestRead) =>
    LET script == RequestScript
        v == RequestValidation
        directive == script.requires # None
    IN /\ v.is_valid = ~ErrorReported
       /\ ErrorReported = (directive /\ Major(script.requires) # <<"2">>)
       /\ ~directive =>
            /\ v.is_valid
            /\ \E d \in Range(v.diagnostics) : d.level = "warning"

(***************************************************************************)
(* RUN_ROW on boards whose rows call themselves.                           *)
(***************************************************************************)
\* a row that calls itself, a row that calls itself twice, two rows that
\* call each other
SelfBoard ==
  TaskBoard(<<TaskRow("main", TRUE, <<RunRow("c1", "main"), Log("l1", "m1")>>)>>)

TwiceBoard ==
  TaskBoard(<<TaskRow("main", TRUE, <<RunRow("c1", "main"), RunRow("c2", "main")>>)>>)

MutualBoard ==
  TaskBoard(<<TaskRow("r1", TRUE, <<RunRow("c1", "r2")>>),
              TaskRow("r2", TRUE, <<Log("l2", "m2"), RunRow("c2", "r1")>>)>>)

RecursiveBoards == {SelfBoard, TwiceBoard, MutualBoard}

RecInit ==
  /\ board \in RecursiveBoards
  /\ ports = AllPorts
  /\ EngineIdle
  /\ AhkNone
  /\ NoFiles
  /\ NoUnits

RecNext ==
  \/ Stop \/ Pause \/ Resume
  \/ ExecuteBoard \/ LoopHead \/ ControlCheck \/ PauseWait \/ ExecuteAction
  \/ Dispatch \/ HandlerRun \/ RunRowCall \/ RunRowNext
  \/ AppendResult \/ Finish

RecSpec == RecInit /\ [][RecNext]_vars

\* the calls of RunRowHandler.execute the run has made, by the number of
\* its calls already active
RunRowDepths ==
  {c.depth : c \in {x \in Range(trace) : x.handler = "RUN_ROW"}}

\* the run dispatched the first action of the board, a RUN_ROW action
\* whose row leads back to itself
CycleEntered ==
  \E c \in Range(trace) : c.via = "engine" /\ c.handler = "RUN_ROW" /\ c.id = "c1"

RunReturned == runs > 0 /\ pc = "idle" /\ outcome = "returned"

\* C17 as stated: on a board with a row that leads back to itself, once
\* the RUN_ROW action is dispatched execute_board does not return.
C17_NeverTerminates == ~(RunReturned /\ CycleEntered)

\* C17: RunRowHandler has no cycle detection and no bound of its own: the
\* row is entered again at every depth the interpreter allows, and a run
\* that dispatched the action returns only after a call was refused at the
\* interpreter's recursion limit (the RecursionError is caught by the
\* handler's try/except and becomes a failed Result that its caller drops).
C17_ReturnsAtRecursionLimit ==
  (RunReturned /\ CycleEntered) => RunRowDepths = 0..MaxDepth

\* a run on the row that calls itself has returned, the RUN_ROW action
\* reported as a success
C17_Witness ==
  /\ board = SelfBoard
  /\ RunReturned
  /\ MaxDepth \in RunRowDepths
  /\ Len(returned) = 2
  /\ returned[1].action_id = "c1" /\ returned[1].success

(***************************************************************************)
(* save_board and load_board.  A saved file is the JSON document json.dump *)
(* wrote, as json.load reads it back: objects with string keys, null for   *)
(* None.  Metadata values are the scalars the editor, the parser and the   *)
(* translator store (strings, numbers, booleans), which JSON keeps.        *)
(***************************************************************************)
JsonNull == [null |-> TRUE]

\* bool(value) of a JSON value that is null or an object
Truthy(value) == value # JsonNull /\ DOMAIN value # {}

\* Coordinates.to_dict / Color.to_dict
CoordinatesToDict(c) == [x |-> c.x, y |-> c.y]

ColorToDict(c) == [r |-> c.r, g |-> c.g, b |-> c.b, tolerance |-> c.tolerance]

\* Action.to_dict
ActionToDict(a) ==
  [id |-> a.id, action_type |-> a.action_type, name |-> a.name,
   enabled |-> a.enabled, delay_before_ms |-> a.delay_before_ms,
   delay_after_ms |-> a.delay_after_ms, repeat_count |-> a.repeat_count,
   coordinates |-> IF a.coordinates.present
                     THEN CoordinatesToDict(a.coordinates) ELSE JsonNull,
   color |-> IF a.color.present THEN ColorToDict(a.color) ELSE JsonNull,
   mouse_button |-> a.mouse_button, key |-> a.key, metadata |-> a.metadata]

\* TaskRow.to_dict
RowToDict(row) ==
  [id |-> row.id, name |-> row.name, enabled |-> row.enabled,
   actions |-> [k \in 1..Len(row.actions) |-> ActionToDict(row.actions[k])]]

\* datetime.isoformat()
IsoFormat(t) == ToString(t)

\* TaskBoard.to_dict with the version and app keys save_board adds
BoardToDocument(b) ==
  [written |-> TRUE, id |-> b.id, name |-> b.name,
   created_at |-> IsoFormat(b.created_at),
   modified_at |-> IsoFormat(b.modified_at),
   rows |-> [k \in 1..Len(b.rows) |-> RowToDict(b.rows[k])],
   version |-> "version", app |-> "app"]

\* ActionType[name], MOUSE_CLICK on KeyError
ActionTypeFallback(name) == "MOUSE_CLICK"

ActionTypeByName(name) == IF name \in ActionType THEN name ELSE "MOUSE_CLICK"

\* Coordinates.from_dict
CoordinatesFromDict(data) == Coordinates(Get(data, "x", 0), Get(data, "y", 0))

\* Action.from_dict
ActionFromDict(data) ==
  [id |-> Get(data, "id", ""),
   action_type |-> ActionTypeByName(Get(data, "action_type", "MOUSE_CLICK")),
   name |-> Get(data, "name", ""),
   enabled |-> Get(data, "enabled", TRUE),
   delay_before_ms |-> Get(data, "delay_before_ms", 0),
   delay_after_ms |-> Get(data, "delay_after_ms", 0),
   repeat_count |-> Get(data, "repeat_count", 1),
   coordinates |-> IF Truthy(Get(data, "coordinates", JsonNull))
                     THEN CoordinatesFromDict(data.coordinates)
                     ELSE NoCoordinates,
   color |-> IF Truthy(Get(data, "color", JsonNull))
               THEN Color(data.color.r, data.color.g, data.color.b,
                          data.color.tolerance)
               ELSE NoColor,
   key |-> Get(data, "key", None),
   mouse_button |-> Get(data, "mouse_button", "left"),
   metadata |-> Get(data, "metadata", <<>>)]

\* the TaskRow load_board builds from a row of the document
RowFromDict(row_data) ==
  LET acts == Get(row_data, "actions", <<>>)
  IN [id |-> Get(row_data, "id", None), name |-> Get(row_data, "name", None),
      enabled |-> Get(row_data, "enabled", TRUE),
      actions |-> [k \in 1..Len(acts) |-> ActionFromDict(acts[k])]]

\* the TaskBoard load_board builds; its timestamps are the time of loading
BoardFromDocument(data, now) ==
  LET rows == Get(data, "rows", <<>>)
  IN [id |-> Get(data, "id", "board_1"), name |-> Get(data, "name", "loaded"),
      rows |-> [k \in 1..Len(rows) |-> RowFromDict(rows[k])],
      created_at |-> now, modified_at |-> now]

\* a board that uses every field of Action
FieldsBoard ==
  TaskBoard(<<
    TaskRow("r1", TRUE,
      <<[Click("f1") EXCEPT !.coordinates = Coordinates(0, 0),
                            !.color = Color(0, 0, 0, 0), !.repeat_count = 3,
                            !.mouse_button = "right", !.name = "click"],
        [Action("f2", "KEY_PRESS", <<>>) EXCEPT !.key = "", !.delay_after_ms = 5],
        Disabled(RunRow("f3", "r2"))>>),
    TaskRow("r2", FALSE,
      <<[Action("f4", "WAIT_PIXEL_COLOR",
                [timeout_ms |-> 0, any_change |-> FALSE, image_path |-> ""])
           EXCEPT !.color = Color(1, 2, 3, 10), !.key = "enter"]>>),
    TaskRow("r3", TRUE, <<>>)>>)

\* the boards saved: shaped boards, the boards the engine is run on, the
\* translations of the scripts
SaveInit ==
  /\ \/ \E m \in 0..MaxRows :
          \E lens \in [1..m -> 0..MaxRowLen], rowOn \in [1..m -> BOOLEAN] :
            \E actOn \in ShapeFlags(m, lens) :
              board = ShapedBoard(lens, rowOn, actOn)
     \/ \E sc \in Scenarios : board = sc.board
     \/ \E lines \in Scripts \ {ClipWaitScript} :
          board = to_board(parse_text(lines)).board
     \/ board = FieldsBoard
  /\ ports = AllPorts
  /\ EngineIdle
  /\ AhkNone
  /\ NoFiles
  /\ NoUnits

\* BackendApplication.save_board(board, filepath)
SaveBoard ==
  /\ ~saved.written
  /\ saved' = BoardToDocument(board)
  /\ UNCHANGED <<board, engine_vars, ahk_vars, loaded, unit_vars>>

\* BackendApplication.load_board(filepath) at a later time
LoadBoard ==
  /\ saved.written
  /\ loaded = NoBoard
  /\ loaded' = BoardFromDocument(saved, 1)
  /\ UNCHANGED <<board, engine_vars, ahk_vars, saved, unit_vars>>

SaveNext == SaveBoard \/ LoadBoard

SaveSpec == SaveInit /\ [][SaveNext]_vars

\* the fields of an action the round trip is to keep
ActionFields(a) ==
  <<a.id, a.action_type, a.name, a.enabled, a.delay_before_ms, a.delay_after_ms,
    a.repeat_count, a.coordinates, a.color, a.key, a.mouse_button, a.metadata>>

\* same id and name, same rows in order, same actions in order
SameBoard(b1, b2) ==
  /\ b1.id = b2.id /\ b1.name = b2.name
  /\ Len(b1.rows) = Len(b2.rows)
  /\ \A r \in 1..Len(b1.rows) :
       /\ b1.rows[r].id = b2.rows[r].id
       /\ b1.rows[r].name = b2.rows[r].name
       /\ b1.rows[r].enabled = b2.rows[r].enabled
       /\ Len(b1.rows[r].actions) = Len(b2.rows[r].actions)
       /\ \A k \in 1..Len(b1.rows[r].actions) :
            ActionFields(b1.rows[r].actions[k]) = ActionFields(b2.rows[r].actions[k])

\* C18: the board load_board builds from the file save_board(b) wrote has
\* the id and name of b, its rows in order with their id, name and enabled
\* flag, and in each row its actions in order with equal id, kind, name,
\* enabled, delays, repeat_count, coordinates, color, key, mouse_button and
\* metadata; only the timestamps may differ.
C18_SaveLoadRoundTrip == loaded # NoBoard => SameBoard(board, loaded)

\* the board with every field in use was saved and loaded, at a later time
C18_Witness ==
  /\ board = FieldsBoard
  /\ loaded # NoBoard
  /\ loaded.rows[1].actions[1].coordinates = Coordinates(0, 0)
  /\ loaded.created_at # board.created_at

(***************************************************************************)
(* Properties of the registry and of the timing of execute_action.         *)
(***************************************************************************)
\* the kinds whose handler is not the one the constructor installed
Replaced == {k \in ActionType : Get(handlers, k, None) # DefaultHandlers[k]}

\* C19: a new registry has a handler for every ActionType; after
\* register_handler(k, h) get_handler(k) is h and the handler of every other
\* kind is as before; the engine dispatches the actions of kind k that
\* follow to h.
C19_Registry ==
  /\ registrations = 0 =>
       \A k \in ActionType : get_handler(handlers, k) \in HandlerIds
  /\ Cardinality(Replaced) <= registrations
  /\ \A k \in Replaced : get_handler(handlers, k) \in {"custom", None}
  /\ pc # "idle" =>
       \A c \in Range(trace) :
         c.via = "engine" => c.handler = handlers[c.kind] /\ c.handler # None

\* a handler registered in place of the default one has been called by the
\* engine for an action of its kind
C19_Witness ==
  /\ registrations = 1
  /\ pc = "handler" /\ stack = <<>>
  /\ handlers[actions[i].action_type] = "custom"
  /\ Last(trace).handler = "custom"
  /\ Last(trace).id = actions[i].id

\* execute_action has returned for the action before position i, an action
\* with delay_after_ms > 0, and execution_time is the time measured for it
TimedActionDone ==
  /\ i > 1 /\ i - 1 <= Len(actions)
  /\ pc # "sleep_after"
  /\ actions[i - 1].delay_after_ms > 0
  /\ results # <<>>
  /\ Last(results).action_id = actions[i - 1].id

\* the suspensions execute_action made after the handler of action a
SleepsAfter(a) == SelectSeq(sleeps, LAMBDA sl : sl.id = a.id /\ sl.by = "after")

\* C20: for an action with delay_after_ms = d > 0 whose handler took e ms,
\* execute_action suspends after the handler for max(0, d - e) ms, not at
\* all when e >= d, so that handler time plus post-delay is max(d, e).
C20_DelayAfterCompensation ==
  TimedActionDone =>
    LET a == actions[i - 1]
        d == a.delay_after_ms
        e == execution_time
        after == SleepsAfter(a)
        slept == IF after = <<>> THEN 0 ELSE after[1].ms
    IN /\ Len(after) <= 1
       /\ slept = Max(0, d - e)
       /\ e >= d => after = <<>>
       /\ e + slept = Max(d, e)

\* a handler that took longer than the delay: no suspension follows it
C20_Witness ==
  /\ TimedActionDone
  /\ pc = "loop"
  /\ execution_time = 20
  /\ actions[i - 1].delay_after_ms = 10
  /\ SleepsAfter(actions[i - 1]) = <<>>

(***************************************************************************)
(* WaitPixelChangeHandler.execute against a screen port and the loop's     *)
(* clock.  The port returns a colour or None, or raises; the clock is read *)
(* at each test of the while condition; the port call and the sleep take   *)
(* time.                                                                   *)
(***************************************************************************)
Abs(x) == IF x < 0 THEN -x ELSE x

\* Color.matches
MatchesByOther(self, other) ==
  /\ Abs(self.r - other.r) <= other.tolerance
  /\ Abs(self.g - other.g) <= other.tolerance
  /\ Abs(self.b - other.b) <= other.tolerance

Matches(self, other) ==
  /\ Abs(self.r - other.r) <= self.tolerance
  /\ Abs(self.g - other.g) <= self.tolerance
  /\ Abs(self.b - other.b) <= self.tolerance

\* what IScreenService.get_pixel_color returns: None or a colour
ScreenColors ==
  {NoColor, Color(10, 10, 10, 0), Color(20, 20, 20, 0), Color(12, 10, 10, 0),
   Color(10, 10, 10, 5)}

\* CONFIG["pixel_check_interval_ms"]
pixel_check_interval_ms == 100

\* int(action.metadata.get("timeout_ms", 5000))
timeout_ms(a) == Get(a.metadata, "timeout_ms", 5000)

\* int(action.metadata.get("check_interval_ms", CONFIG[...]))
interval_ms(a) == Get(a.metadata, "check_interval_ms", pixel_check_interval_ms)

\* the time a port call takes and the time a sleep overruns, ms
PortTimes == {0, 1}

Overruns == {0, 1}

\* the pixel waits the handler is called on
PixelWaits ==
  {[Action("w", "WAIT_PIXEL_CHANGE", md) EXCEPT !.coordinates = c] :
     md \in {[timeout_ms |-> 0], [timeout_ms |-> -1],
             [timeout_ms |-> 3, check_interval_ms |-> 1],
             [timeout_ms |-> 2, check_interval_ms |-> 0],
             [timeout_ms |-> 3]},
     c \in {Coordinates(1, 1), NoCoordinates}}

\* what a step of the pixel wait leaves alone
wait_others ==
  <<board, engine_vars, ahk_vars, file_vars, script_vars, buffer_vars,
    manager_vars>>

WaitInit ==
  /\ board = TaskBoard(<<>>)
  /\ ports \in {AllPorts, NoPorts}
  /\ EngineIdle
  /\ AhkNone
  /\ NoFiles
  /\ wait_pc = "called"
  /\ wait_action \in PixelWaits
  /\ initial = NoColor
  /\ elapsed = 0
  /\ samples = <<>>
  /\ wait_result = NoResult
  /\ NoScript
  /\ NoBuffer
  /\ NoManager

\* execute() up to start = loop.time(): the port checks and the initial sample
WaitExecute ==
  /\ wait_pc = "called"
  /\ IF ~ports.screen
       THEN /\ wait_result' = ExecutionResult(FALSE, wait_action, Msg(""),
                                              Err("no screen service"))
            /\ wait_pc' = "returned"
            /\ UNCHANGED initial
     ELSE IF ~wait_action.coordinates.present
       THEN /\ wait_result' = ExecutionResult(FALSE, wait_action, Msg(""),
                                              Err("no coordinates"))
            /\ wait_pc' = "returned"
            /\ UNCHANGED initial
     ELSE \/ /\ wait_pc' = "raised"
             /\ UNCHANGED <<initial, wait_result>>
          \/ \E c \in ScreenColors :
               /\ initial' = c
               /\ IF ~c.present
                    THEN /\ wait_result' = ExecutionResult(FALSE, wait_action,
                                             Msg(""), Err("no initial colour"))
                         /\ wait_pc' = "returned"
                    ELSE /\ wait_pc' = "loop"
                         /\ UNCHANGED wait_result
  /\ UNCHANGED <<elapsed, samples, wait_action>>
  /\ UNCHANGED wait_others

\* one test of the while condition and the poll it admits
WaitPoll ==
  /\ wait_pc = "loop"
  /\ IF elapsed <= timeout_ms(wait_action)
       THEN \/ /\ wait_pc' = "raised"
               /\ UNCHANGED <<samples, wait_result, elapsed>>
            \/ \E current \in ScreenColors, took \in PortTimes :
                 /\ samples' = Append(samples, [at |-> elapsed, current |-> current])
                 /\ elapsed' = elapsed + took
                 /\ IF current.present /\ ~Matches(initial, current)
                      THEN /\ wait_result' = ExecutionResult(TRUE, wait_action,
                                               Msg("pixel changed"), NoError)
                           /\ wait_pc' = "returned"
                      ELSE /\ wait_pc' = "sleep"
                           /\ UNCHANGED wait_result
       ELSE /\ wait_result' = ExecutionResult(FALSE, wait_action,
                                              Msg("timeout"), NoError)
            /\ wait_pc' = "returned"
            /\ UNCHANGED <<samples, elapsed>>
  /\ UNCHANGED <<initial, wait_action>>
  /\ UNCHANGED wait_others

\* await asyncio.sleep(max(interval_ms, 1) / 1000)
WaitSleep ==
  /\ wait_pc = "sleep"
  /\ \E over \in Overruns :
       elapsed' = elapsed + Max(interval_ms(wait_action), 1) + over
  /\ wait_pc' = "loop"
  /\ UNCHANGED <<initial, wait_action, samples, wait_result>>
  /\ UNCHANGED wait_others

WaitNext == WaitExecute \/ WaitPoll \/ WaitSleep

WaitSpec == WaitInit /\ [][WaitNext]_vars

\* the handler was called with a screen port and coordinates and returned
WaitReturned ==
  /\ wait_pc = "returned"
  /\ ports.screen
  /\ wait_action.coordinates.present

\* a sample that is a colour differing from c0 by more than c0's tolerance
\* in some channel
Changed(c0, c) ==
  /\ c.present
  /\ \/ Abs(c0.r - c.r) > c0.tolerance
     \/ Abs(c0.g - c.g) > c0.tolerance
     \/ Abs(c0.b - c.b) > c0.tolerance

\* the polls whose sample is a change
ChangedPolls == {n \in 1..Len(samples) : Changed(initial, samples[n].current)}

\* C21: with a screen port and coordinates, a null initial sample gives a
\* failure with an error and no poll; otherwise every poll is taken while
\* the elapsed time is within the timeout, the handler returns success at
\* the first poll whose sample is a changed colour, and returns a failure
\* with the timeout message and no error when the timeout passes with no
\* such poll
C21_PixelChangeWait ==
  WaitReturned =>
    IF ~initial.present
      THEN /\ ~wait_result.success
           /\ wait_result.error # NoError
           /\ samples = <<>>
    ELSE /\ \A n \in 1..Len(samples) : samples[n].at <= timeout_ms(wait_action)
         /\ IF ChangedPolls # {}
              THEN /\ wait_result.success
                   /\ ChangedPolls = {Len(samples)}
              ELSE /\ ~wait_result.success
                   /\ wait_result.message = Msg("timeout")
                   /\ wait_result.error = NoError
                   /\ elapsed > timeout_ms(wait_action)

\* a change seen at the third poll, after a null sample and a sample within
\* the tolerance of the initial one
C21_Witness ==
  /\ WaitReturned
  /\ wait_result.success
  /\ Len(samples) = 3
  /\ initial.tolerance > 0
  /\ ~samples[1].current.present
  /\ samples[2].current.present /\ samples[2].current # initial

C21_WitnessTimeout ==
  /\ WaitReturned
  /\ initial.present
  /\ ~wait_result.success
  /\ Len(samples) >= 2

(***************************************************************************)
(* Emulated execution and the pointer port.                                *)
(***************************************************************************)
\* the Click(x, y) commands among cmds: two arguments, both integer texts
ClickCommands(cmds) ==
  SelectSeq(cmds, LAMBDA c : /\ c.name = "Click"
                             /\ Len(c.args) = 2
                             /\ c.args[1] \in DOMAIN IntOf
                             /\ c.args[2] \in DOMAIN IntOf)

\* the commands of the bodies of the declared functions
FunctionCommands(script) ==
  UNION {Range(script.functions[k].body) : k \in 1..Len(script.functions)}

\* the script's executed body has one Click(x, y), and no function has one
OneClick ==
  /\ Len(ClickCommands(MainCommands(RequestScript))) = 1
  /\ \A c \in FunctionCommands(RequestScript) : Lower(c.name) # "click"
  /\ \A c \in Range(MainCommands(RequestScript)) :
       Lower(c.name) = "click" => c \in Range(ClickCommands(MainCommands(RequestScript)))

\* the pointer calls Click(x, y) stands for
ClickCalls ==
  LET c == ClickCommands(MainCommands(RequestScript))[1]
  IN <<MoveTo(IntOf[c.args[1]], IntOf[c.args[2]], 0), ClickButton("left")>>

\* the click's handler returned success
ClickDone == \E r \in Range(results) : r.success /\ r.message = Msg("moved")

MaxLines == 5

\* kw { : a body line that opens a nested block
OpenLine == Line("command", "Try", <<"{">>, "Try {", 1, 0)

\* } else { : closes one block and opens another
ElseLine == Line("command", "}", <<"else {">>, "} else {", 1, 1)

\* the lines the short texts are made of
LineAlphabet ==
  {FuncLine("Main"), HotkeyBlockLine("F1"), OpenLine, CloseLine, BlankLine,
   CallLine("Foo", <<>>)}

\* two hotkeys: only the first is emulated
TwoHotkeysScript ==
  <<HotkeyBlockLine("F1"), CallLine("Foo", <<>>), CloseLine,
    HotkeyBlockLine("F2"), CallLine("Click", <<"1", "2">>), CloseLine,
    HotkeyInlineLine("F3", CallLine("Send", <<"{Tab}">>))>>

\* functions that call each other, called from the top level
CallsScript ==
  <<CallLine("Helper", <<>>),
    FuncLine("Helper"), CallLine("Click", <<"1", "2">>), CallLine("Main", <<>>),
    CloseLine,
    FuncLine("Main"), CallLine("Helper", <<>>), CallLine("helper", <<>>),
    CloseLine>>

\* two functions whose names differ in case only
CaseScript ==
  <<CallLine("Helper", <<>>),
    FuncLine("Helper"), CallLine("Click", <<"1", "2">>), CloseLine,
    FuncLine("helper"), CallLine("Send", <<"{Tab}">>), CloseLine>>

\* body lines with := : a plain assignment and calls that assign in an
\* argument
AssignScript ==
  <<HotkeyBlockLine("F1"),
    AssignLine("x", "x := 1"),
    CommandLine("Foo", <<"x := 1">>, "Foo(x := 1)"),
    CommandLine("MsgBox", <<"x := 1">>, "MsgBox(x := 1)"),
    CommandLine("Try", <<"x := 1">>, "Try x := 1"),
    CloseLine>>

SleepAssignScript ==
  <<HotkeyBlockLine("F1"),
    CommandLine("Sleep", <<"n := 5">>, "Sleep(n := 5)"),
    CloseLine>>

CallAssignScript ==
  <<CommandLine("Helper", <<"x := 1">>, "Helper(x := 1)"),
    FuncLine("Helper"), AssignLine("y", "y := Foo()"), CloseLine>>

\* nested blocks with blank lines, then top-level lines
NestedScript ==
  <<FuncLine("Main"), OpenLine, BlankLine, CallLine("Foo", <<>>), ElseLine,
    CallLine("MsgBox", <<"x">>), CloseLine, BlankLine, CloseLine,
    CallLine("Main", <<>>), HotkeyBlockLine("F1"), CloseLine>>

LongScripts ==
  Scripts \cup {TwoHotkeysScript, CallsScript, CaseScript, AssignScript,
                SleepAssignScript, CallAssignScript, NestedScript}

\* what a step on a script text leaves alone
script_others ==
  <<board, engine_vars, ahk_vars, file_vars, wait_vars, buffer_vars,
    manager_vars>>

ScriptInit ==
  /\ board = TaskBoard(<<>>)
  /\ ports = AllPorts
  /\ EngineIdle
  /\ AhkNone
  /\ NoFiles
  /\ NoWait
  /\ NoBuffer
  /\ NoManager
  /\ script_pc = "text"
  /\ \/ \E n \in 0..MaxLines : \E t \in [1..n -> LineAlphabet] : script_text = t
     \/ script_text \in LongScripts
  /\ parsed = [requires |-> None]
  /\ translation = [kind |-> "none"]

\* AhkV2Parser.parse_text(text)
ParseText ==
  /\ script_pc = "text"
  /\ parsed' = parse_text(script_text)
  /\ script_pc' = "parsed"
  /\ UNCHANGED <<script_text, translation>>
  /\ UNCHANGED script_others

\* AhkToBoardTranslator.to_board(script)
ToBoard ==
  /\ script_pc = "parsed"
  /\ \E t \in {to_board(parsed)} :
       /\ translation' = t
       /\ script_pc' = IF t.kind = "raise" THEN "raised" ELSE "translated"
  /\ UNCHANGED <<script_text, parsed>>
  /\ UNCHANGED script_others

ScriptNext == ParseText \/ ToBoard

ScriptSpec == ScriptInit /\ [][ScriptNext]_vars

\* the row to_board adds first, and the rows it adds for the functions
MainRow == translation.board.rows[1]

FunctionRowsOf(b) == SubSeq(b.rows, 2, Len(b.rows))

Declares(name) ==
  \E k \in 1..Len(parsed.functions) : parsed.functions[k].key = name

\* the id _command_to_action gives the action of a command
ActionId(cmd) == "ahk_line_" \o ToString(cmd.line_no) \o "_" \o Lower(cmd.name)

\* the ids of the actions of all rows of a board
BoardActionIds(b) ==
  UNION {{b.rows[r].actions[k].id : k \in 1..Len(b.rows[r].actions)} :
           r \in 1..Len(b.rows)}

\* the translations of cmds, in order
Translations(cmds) == TranslateAll(cmds, FunctionRowIds(parsed)).actions

\* C23: the main row holds the translations of the top-level commands when
\* there is one; failing that, of the commands of the body of the first
\* hotkey when it has one; failing that, a single RUN_ROW call of the row of
\* the function Main when one is declared; and is empty otherwise.  No
\* command of a later hotkey is translated into any row.
C23_MainRowSource ==
  script_pc = "translated" =>
    /\ MainRow.id = "row_main"
    /\ IF parsed.top_level # <<>>
         THEN MainRow.actions = Translations(parsed.top_level)
       ELSE IF parsed.hotkeys # <<>> /\ parsed.hotkeys[1].body # <<>>
         THEN MainRow.actions = Translations(parsed.hotkeys[1].body)
       ELSE IF Declares("Main")
         THEN /\ Len(MainRow.actions) = 1
              /\ MainRow.actions[1].action_type = "RUN_ROW"
              /\ MainRow.actions[1].metadata.row_id = "row_fn_main"
              /\ \E r \in Range(FunctionRowsOf(translation.board)) :
                   r.id = "row_fn_main"
       ELSE MainRow.actions = <<>>
    /\ \A k \in 2..Len(parsed.hotkeys) :
         \A c \in Range(parsed.hotkeys[k].body) :
           ActionId(c) \notin BoardActionIds(translation.board)

\* a first hotkey with an empty body and a function Main: the main row
\* calls Main's row
C23_Witness ==
  /\ script_pc = "translated"
  /\ parsed.top_level = <<>>
  /\ parsed.hotkeys # <<>>
  /\ parsed.hotkeys[1].body = <<>>
  /\ Declares("Main")
  /\ Len(MainRow.actions) = 1
  /\ MainRow.actions[1].action_type = "RUN_ROW"

\* later hotkeys with commands, none of them translated
C23_WitnessHotkeys ==
  /\ script_pc = "translated"
  /\ Len(parsed.hotkeys) = 3
  /\ parsed.hotkeys[2].body # <<>>
  /\ parsed.hotkeys[3].body # <<>>
  /\ Len(MainRow.actions) = 1

\* the declared function names, and the row to_board made for the k-th
FunctionNames == {parsed.functions[k].key : k \in 1..Len(parsed.functions)}

FunctionRow(k) == FunctionRowsOf(translation.board)[k]

\* the commands of row r of the board (1 the main row) and their actions
\* stand at the same positions
RowCommands(r) ==
  IF r = 1 THEN MainCommands(parsed) ELSE parsed.functions[r - 1].body

\* C24: each declared function has a row of its own, with an id that no
\* other row has, holding exactly the translations of its body in order;
\* every command named as a declared function f, in the main row or in a
\* function body, is a RUN_ROW action with the id of f's row.
C24_FunctionRows ==
  script_pc = "translated" =>
    /\ Len(FunctionRowsOf(translation.board)) = Len(parsed.functions)
    /\ \A k \in 1..Len(parsed.functions) :
         /\ FunctionRow(k).id # MainRow.id
         /\ \A j \in 1..Len(parsed.functions) :
              j # k => FunctionRow(j).id # FunctionRow(k).id
         /\ FunctionRow(k).actions = Translations(parsed.functions[k].body)
    /\ \A r \in 1..Len(translation.board.rows) :
         \A n \in 1..Len(RowCommands(r)) :
           \A k \in 1..Len(parsed.functions) :
             RowCommands(r)[n].name = parsed.functions[k].key =>
               /\ n <= Len(translation.board.rows[r].actions)
               /\ translation.board.rows[r].actions[n].action_type = "RUN_ROW"
               /\ translation.board.rows[r].actions[n].metadata.row_id
                    = FunctionRow(k).id

\* the lower-cased names _command_to_action gives an action of their own
TranslatedNames ==
  {"click", "send", "sleep", "pixelwaitchange", "clipwait", "pixelgetcolor",
   "pixelsearch"}

\* a command no rule of _command_to_action recognizes
Unrecognized(c) ==
  /\ c.name \notin FunctionNames
  /\ Lower(c.name) \notin TranslatedNames \cup CONTROL_WORDS \cup KNOWN_COMMANDS
  /\ c.raw \notin ASSIGNMENTS

\* the places (row, position) of the commands to_board translates
TranslatedPlaces ==
  {p \in (1..(Len(parsed.functions) + 1)) \X (1..(MaxLines + 8)) :
     p[2] <= Len(RowCommands(p[1]))}

\* C25: to_board returns for every parsed script, never raising; every
\* command with an unrecognized name becomes one LOG action of level WARNING
\* whose message is the raw text, with one info diagnostic that carries the
\* command's line number.
C25_TranslationNeverFails ==
  /\ script_pc # "raised"
  /\ script_pc = "translated" =>
       \A p \in TranslatedPlaces :
         LET c == RowCommands(p[1])[p[2]]
             a == translation.board.rows[p[1]].actions[p[2]]
         IN Unrecognized(c) =>
              /\ p[2] <= Len(translation.board.rows[p[1]].actions)
              /\ a.action_type = "LOG"
              /\ a.metadata = [message |-> c.raw, log_level |-> "WARNING"]
              /\ Cardinality({k \in 1..Len(translation.diags) :
                                /\ translation.diags[k].level = "info"
                                /\ translation.diags[k].line_no = c.line_no}) = 1

\* C26: every translated command whose raw text contains := becomes a LOG
\* action of level DEBUG whose message is the raw text, and no action of
\* another kind.
C26_AssignmentIsDebugLog ==
  script_pc = "translated" =>
    \A p \in TranslatedPlaces :
      LET c == RowCommands(p[1])[p[2]]
          a == translation.board.rows[p[1]].actions[p[2]]
      IN c.raw \in ASSIGNMENTS =>
           /\ p[2] <= Len(translation.board.rows[p[1]].actions)
           /\ a.action_type = "LOG"
           /\ a.metadata = [message |-> c.raw, log_level |-> "DEBUG"]

(***************************************************************************)
(* The blocks of a script text, told from the text alone.                  *)
(***************************************************************************)
\* line h is a function header or a hotkey header that opens a brace block
OpensBlock(h) ==
  \/ script_text[h].kind = "func"
  \/ script_text[h].kind = "hotkey" /\ script_text[h].inline = "{"

RECURSIVE DepthAfter(_, _)
\* the running brace depth after line j of the block opened at line h
DepthAfter(h, j) ==
  IF j <= h THEN 1
  ELSE DepthAfter(h, j - 1) + script_text[j].opens - script_text[j].closes

\* the first line at which the depth is <= 0; past the end when there is none
ClosingLine(h) ==
  LET closing == {j \in (h + 1)..Len(script_text) :
                    script_text[j].kind # "blank" /\ DepthAfter(h, j) <= 0}
  IN IF closing = {} THEN Len(script_text) + 1
     ELSE CHOOSE j \in closing : \A q \in closing : j <= q

RECURSIVE TopLevelFrom(_)
\* the lines read as top-level constructs, from line k on
TopLevelFrom(k) ==
  IF k > Len(script_text) THEN {}
  ELSE {k} \cup TopLevelFrom(IF OpensBlock(k) THEN ClosingLine(k) + 1 ELSE k + 1)

TopLevelLines == TopLevelFrom(1)

\* name and text of the commands of a sequence of lines, "}" lines left out
CommandTexts(lines) ==
  LET kept == SelectSeq(lines, LAMBDA l : l.kind # "blank" /\ l.raw # "}")
  IN [n \in 1..Len(kept) |-> <<kept[n].name, kept[n].raw>>]

TextsOf(cmds) == [n \in 1..Len(cmds) |-> <<cmds[n].name, cmds[n].raw>>]

\* the body parse_text has for the key of header line h
ParsedBody(h) ==
  LET entries == IF script_text[h].kind = "func" THEN parsed.functions
                 ELSE parsed.hotkeys
      k == CHOOSE k \in 1..Len(entries) : entries[k].key = script_text[h].name
  IN entries[k].body

\* header h is the last top-level header of its kind with its name
LastDeclaration(h) ==
  \A g \in TopLevelLines :
    (g > h /\ script_text[g].kind = script_text[h].kind)
      => script_text[g].name # script_text[h].name

\* the top-level lines that are commands, in order
TopLevelCommands ==
  SelectSeq([k \in 1..Len(script_text) |->
               IF k \in TopLevelLines /\ script_text[k].kind = "command"
                 THEN script_text[k] ELSE BlankLine],
            LAMBDA l : l.kind # "blank")

\* C27: the body of a block header is the non-blank lines after it up to,
\* not including, the first line at which the running brace depth is <= 0,
\* in source order; the top-level commands of the script are the command
\* lines outside the blocks, those after a closing line included.
C27_BlockBody ==
  script_pc # "text" =>
    /\ \A h \in TopLevelLines :
         (OpensBlock(h) /\ LastDeclaration(h)) =>
           TextsOf(ParsedBody(h))
             = CommandTexts(SubSeq(script_text, h + 1, ClosingLine(h) - 1))
    /\ TextsOf(parsed.top_level) = TextsOf(TopLevelCommands)

\* a function whose body has a nested block closed inside it, with blank
\* lines, followed by a top-level command and a hotkey
C27_Witness ==
  /\ script_pc = "parsed"
  /\ script_text = NestedScript
  /\ Len(parsed.functions) = 1
  /\ Len(parsed.functions[1].body) = 4
  /\ Len(parsed.top_level) = 1
  /\ Len(parsed.hotkeys) = 1

(***************************************************************************)
(* ActionBuffer (src/ui/recording_manager.py): raw clicks and key presses  *)
(* become click, double_click, key and wait events.                        *)
(***************************************************************************)
\* feed() and flush() calls made on one ActionBuffer
MaxFeeds == 3

\* ActionBuffer.__init__: the defaults
min_wait_ms == 50

double_click_ms == 350

NeedsWaitAbove(delay) == delay > min_wait_ms

\* _commit_action: `delay >= self.min_wait_ms`
NeedsWait(delay) == delay >= min_wait_ms

\* ActionBuffer._commit_action(event)
commit_action(buf, event) ==
  LET delay == event.ts - buf.last_action_ts.ts
      wait ==
        [RecordingEvent("wait", event.ts, "", 0, 0, "", event.raw)
           EXCEPT !.delay_before = delay]
      waits ==
        IF buf.last_action_ts.present /\ NeedsWait(delay) THEN <<wait>>
        ELSE <<>>
  IN  [buf EXCEPT !.events = buf.events \o waits \o <<event>>,
                  !.last_action_ts = [present |-> TRUE, ts |-> event.ts]]

\* ActionBuffer._flush_pending_click()
flush_pending_click(buf) ==
  IF ~buf.pending_click.present THEN buf
  ELSE LET click == buf.pending_click
       IN  commit_action([buf EXCEPT !.pending_click = NoClick],
                         RecordingEvent("click", click.ts, click.button,
                                        click.x, click.y, "", click.raw))

\* ActionBuffer.flush()
flush(buf) == flush_pending_click(buf)

IsDoubleClickBefore(prev, click) ==
  /\ prev.button = click.button
  /\ Abs(prev.x - click.x) <= 4
  /\ Abs(prev.y - click.y) <= 4
  /\ click.ts - prev.ts < double_click_ms

\* feed: the test that merges the pending click with the click fed
IsDoubleClick(prev, click) ==
  /\ prev.button = click.button
  /\ Abs(prev.x - click.x) <= 4
  /\ Abs(prev.y - click.y) <= 4
  /\ click.ts - prev.ts <= double_click_ms

\* ActionBuffer.feed(raw); n is the position of this call in `fed`
feed(buf, raw, n) ==
  IF raw.type = "click"
  THEN LET click ==
             [present |-> TRUE, ts |-> raw.ts, button |-> raw.button,
              x |-> raw.x, y |-> raw.y, raw |-> n]
           prev == buf.pending_click
       IN  IF prev.present
           THEN IF IsDoubleClick(prev, click)
                THEN commit_action(
                       [buf EXCEPT !.pending_click = NoClick],
                       RecordingEvent("double_click", click.ts, click.button,
                                      click.x, click.y, "", n))
                ELSE [flush_pending_click(buf) EXCEPT !.pending_click = click]
           ELSE [buf EXCEPT !.pending_click = click]
  ELSE LET flushed == flush_pending_click(buf)
       IN  IF raw.type = "key"
           THEN commit_action(flushed,
                              RecordingEvent("key", raw.ts, "", 0, 0, raw.key, n))
           ELSE flushed

\* ActionBuffer.events()
events(buf) == buf.events

\* milliseconds between one raw event and the next
Deltas == {-1, 49, 50, 350, 351}

\* where the pointer is when a button goes down
Positions == {<<0, 0>>, <<4, 4>>, <<5, 0>>, <<0, -1>>}

Raw(type, ts, button, x, y, key) ==
  [call |-> "feed", type |-> type, ts |-> ts, button |-> button, x |-> x,
   y |-> y, key |-> key]

\* the raw events the listener can deliver at time ts
RawEvents(ts) ==
  {Raw("click", ts, "left", p[1], p[2], "") : p \in Positions}
    \cup {Raw("click", ts, "right", 0, 0, ""), Raw("key", ts, "", 0, 0, "enter"),
          Raw("move", ts, "", 0, 0, "")}

\* the timestamp of the last call
Now == IF fed = <<>> THEN 0 ELSE Last(fed).ts

\* what a call on the buffer leaves alone
buffer_others ==
  <<board, engine_vars, ahk_vars, file_vars, wait_vars, script_vars,
    manager_vars>>

BufferInit ==
  /\ board = TaskBoard(<<>>)
  /\ ports = AllPorts
  /\ EngineIdle
  /\ AhkNone
  /\ NoFiles
  /\ NoWait
  /\ NoScript
  /\ NoBuffer
  /\ NoManager

\* buffer.feed(raw)
Feed ==
  /\ Len(fed) < MaxFeeds
  /\ \E d \in Deltas :
       \E raw \in RawEvents(IF fed = <<>> THEN 0 ELSE Now + d) :
         /\ raw.type = "move" => d = 50
         /\ buffer' = feed(buffer, raw, Len(fed) + 1)
         /\ fed' = Append(fed, raw)
  /\ UNCHANGED buffer_others

\* buffer.flush()
Flush ==
  /\ Len(fed) < MaxFeeds
  /\ buffer' = flush(buffer)
  /\ fed' = Append(fed, [Raw("-", Now, "", 0, 0, "") EXCEPT !.call = "flush"])
  /\ UNCHANGED buffer_others

BufferNext == Feed \/ Flush

BufferSpec == BufferInit /\ [][BufferNext]_vars

\* the k-th call fed a click
IsClick(k) == k \in 1..Len(fed) /\ fed[k].call = "feed" /\ fed[k].type = "click"

\* two raw clicks close enough in place and time to be one double click
Near(a, b) ==
  /\ a.button = b.button
  /\ a.x - b.x \in -4..4
  /\ a.y - b.y \in -4..4
  /\ b.ts - a.ts <= 350

\* the events other than waits built from the k-th call
EventsOf(k) ==
  SelectSeq(buffer.events, LAMBDA e : e.raw = k /\ e.type # "wait")

\* e is an event of this type at the place and time of the raw click c
IsAt(e, type, c) ==
  /\ e.type = type
  /\ e.ts = c.ts
  /\ e.x = c.x
  /\ e.y = c.y
  /\ e.button = c.button

RECURSIVE Merged(_)
\* the k-th call fed a click while the click of the call before it was still
\* pending, and the two are near
Merged(k) ==
  /\ IsClick(k)
  /\ IsClick(k - 1)
  /\ ~Merged(k - 1)
  /\ Near(fed[k - 1], fed[k])

\* the last feed() call before the k-th call, 0 if there is none
PrevFeed(k) ==
  LET before == {j \in 1..(k - 1) : fed[j].call = "feed"}
  IN  IF before = {} THEN 0 ELSE CHOOSE j \in before : \A m \in before : m <= j

\* the next feed() call after the k-th call, 0 if there is none
NextFeed(k) ==
  LET after == {j \in (k + 1)..Len(fed) : fed[j].call = "feed"}
  IN  IF after = {} THEN 0 ELSE CHOOSE j \in after : \A m \in after : j <= m

\* the k-th event fed and the event fed before it are near clicks
NearPrev(k) ==
  IsClick(k) /\ IsClick(PrevFeed(k)) /\ Near(fed[PrevFeed(k)], fed[k])

NearNext(k) == NextFeed(k) # 0 /\ NearPrev(NextFeed(k))

\* flush() was called after the k-th call
FlushedAfter(k) == \E j \in (k + 1)..Len(fed) : fed[j].call = "flush"

\* C28 as stated: any two consecutive click events that are near give one
\* double_click at the second click and no click for either of them, and a
\* click that is near neither neighbour is emitted once as a click, at the
\* latest on flush().
C28_ConsecutiveClicksMerge ==
  \A k \in 1..Len(fed) :
    /\ NearPrev(k) =>
         /\ Len(EventsOf(k)) = 1
         /\ IsAt(EventsOf(k)[1], "double_click", fed[k])
         /\ EventsOf(PrevFeed(k)) = <<>>
    /\ (IsClick(k) /\ ~NearPrev(k) /\ ~NearNext(k)) =>
         /\ Len(EventsOf(k)) <= 1
         /\ FlushedAfter(k) => Len(EventsOf(k)) = 1
         /\ \A n \in 1..Len(EventsOf(k)) : IsAt(EventsOf(k)[n], "click", fed[k])

\* C28, amended: a click fed while the click of the call before it is still
\* pending (not itself merged) and near it gives exactly one double_click at
\* the second click's place and time and no click for either of them, also
\* after flush(); every other click is emitted exactly once as a click, by the
\* next call at the latest, and is pending until then.
C28_PendingClickMerges ==
  \A k \in 1..Len(fed) :
    /\ Merged(k) =>
         /\ Len(EventsOf(k)) = 1
         /\ IsAt(EventsOf(k)[1], "double_click", fed[k])
         /\ EventsOf(k - 1) = <<>>
         /\ ~buffer.pending_click.present
              \/ buffer.pending_click.raw \notin {k - 1, k}
    /\ (IsClick(k) /\ ~Merged(k) /\ ~Merged(k + 1)) =>
         IF k < Len(fed)
         THEN /\ Len(EventsOf(k)) = 1
              /\ IsAt(EventsOf(k)[1], "click", fed[k])
         ELSE /\ EventsOf(k) = <<>>
              /\ buffer.pending_click.present
              /\ buffer.pending_click.raw = k

\* two near clicks were merged and flush() was called after them
C28_Witness ==
  /\ Len(fed) = 3
  /\ Merged(2)
  /\ fed[3].call = "flush"
  /\ fed[2].ts - fed[1].ts = 350
  /\ Len(buffer.events) = 1
  /\ buffer.events[1].type = "double_click"

\* a third near click follows a merged pair and is emitted as a click of its own
C28_WitnessTriple ==
  /\ Len(fed) = 3
  /\ Merged(2)
  /\ NearPrev(3)
  /\ buffer.pending_click.raw = 3

\* positions in the event list of the committed action events
ActionPositions ==
  {n \in 1..Len(buffer.events) : buffer.events[n].type # "wait"}

\* the committed action event before the one at position n, 0 if none
PrevAction(n) ==
  LET before == {m \in ActionPositions : m < n}
  IN  IF before = {} THEN 0 ELSE CHOOSE m \in before : \A q \in before : q <= m

\* a wait event stands immediately before position n
WaitBefore(n) == n > 1 /\ buffer.events[n - 1].type = "wait"

\* C29: every committed action event but the first is immediately preceded by
\* a wait event exactly when its timestamp minus the timestamp of the
\* committed action before it is at least min_wait_ms, that wait's
\* delay_before is this difference, and the event list has no two adjacent
\* waits and does not end with a wait.
C29_WaitBetweenActions ==
  /\ \A n \in ActionPositions :
       PrevAction(n) # 0 =>
         LET gap == buffer.events[n].ts - buffer.events[PrevAction(n)].ts
         IN  /\ WaitBefore(n) <=> gap >= 50
             /\ WaitBefore(n) => buffer.events[n - 1].delay_before = gap
  /\ \A n \in 1..(Len(buffer.events) - 1) :
       ~(buffer.events[n].type = "wait" /\ buffer.events[n + 1].type = "wait")
  /\ buffer.events # <<>> => Last(buffer.events).type # "wait"

\* an action 49 ms after the one before it has no wait, the next one, 50 ms
\* later, has a wait of 50
C29_Witness ==
  /\ Len(buffer.events) = 4
  /\ buffer.events[2].type # "wait"
  /\ buffer.events[2].ts - buffer.events[1].ts = 49
  /\ buffer.events[3].type = "wait"
  /\ buffer.events[3].delay_before = 50
  /\ buffer.events[4].ts - buffer.events[2].ts = 50

(***************************************************************************)
(* RecordingManager (src/ui/recording_manager.py).  The manager, its       *)
(* listener and the window live in the GUI thread: start() and stop() are  *)
(* called from the window's slots, the listener's signals reach the        *)
(* manager through queued connections, and each call runs to its end       *)
(* before the next queued signal is delivered.                             *)
(***************************************************************************)
\* start() calls that get past the is_recording test
MaxStarts == 2

\* signals the listeners raise
MaxSignals == 3

\* the manager's fields, the signals it emitted and what it made so far
Manager ==
  [is_recording |-> is_recording, is_stopping |-> is_stopping,
   target_row_id |-> target_row_id, listener_thread |-> listener_thread,
   buffer |-> buffer, fed |-> fed, emitted |-> emitted, created |-> created,
   appended |-> appended]

SetManager(m) ==
  /\ is_recording' = m.is_recording
  /\ is_stopping' = m.is_stopping
  /\ target_row_id' = m.target_row_id
  /\ listener_thread' = m.listener_thread
  /\ buffer' = m.buffer
  /\ fed' = m.fed
  /\ emitted' = m.emitted
  /\ created' = m.created
  /\ appended' = m.appended

\* signal.emit(...): count is the argument of recording_stopped
Emit(m, signal, count) ==
  [m EXCEPT !.emitted = Append(@, [signal |-> signal, count |-> count])]

\* the events a feed() or flush() call returned
Produced(before, after) ==
  SubSeq(after.events, Len(before.events) + 1, Len(after.events))

\* RecordingManager._append_action: the ActionType of the action added
AppendedType(event) ==
  CASE event.type = "wait" -> "WAIT_TIME"
    [] event.type \in {"click", "double_click"} -> "MOUSE_CLICK"
    [] event.type = "key" -> "KEY_PRESS"
    [] OTHER -> None

RECURSIVE append_actions(_, _)
\* RecordingManager._append_action(event) for each event of a list
append_actions(m, evs) ==
  IF evs = <<>> THEN m
  ELSE LET event == Head(evs)
           added ==
             IF ~m.target_row_id.present \/ AppendedType(event) = None THEN m
             ELSE [m EXCEPT !.appended =
                     Append(@, [row |-> m.target_row_id.n,
                                action_type |-> AppendedType(event)])]
       IN  append_actions(added, Tail(evs))

StopReturnsWhileStopping(m) == m.is_stopping

\* stop(): `if not self.is_recording or self._is_stopping: return`
StopReturns(m) == ~m.is_recording \/ m.is_stopping

\* RecordingManager.stop()
stop(m) ==
  IF StopReturns(m) THEN m
  ELSE LET flushed == flush(m.buffer)
           torn ==
             [m EXCEPT !.is_stopping = FALSE, !.is_recording = FALSE,
                       !.listener_thread = NoRef, !.buffer = flushed,
                       !.fed = Append(@, [Raw("-", 0, "", 0, 0, "")
                                            EXCEPT !.call = "flush"])]
           done == append_actions(torn, Produced(m.buffer, flushed))
       IN  Emit(done, "recording_stopped", Len(events(done.buffer)))

\* MainWindow._on_recording_error, the slot of recording_error
on_recording_error(m) == IF m.is_recording THEN stop(m) ELSE m

\* RecordingManager._rollback_start()
rollback_start(m) ==
  [m EXCEPT !.is_recording = FALSE, !.is_stopping = FALSE,
            !.listener_thread = NoRef]

\* how a start() call can go: to its end, or an exception before or after
\* the target row was added
StartOutcomes == {"started", "no_row", "no_listener"}

StartReturnsNever(m) == FALSE

\* start(): `if self.is_recording: ... return`
StartReturns(m) == m.is_recording

\* RecordingManager.start()
start(m, how) ==
  IF StartReturns(m) THEN m
  ELSE LET fresh ==
             [m EXCEPT !.is_recording = TRUE, !.is_stopping = FALSE,
                       !.buffer = ActionBuffer, !.fed = <<>>,
                       !.target_row_id = NoRef, !.created.buffers = @ + 1]
           row ==
             [fresh EXCEPT !.created.rows = @ + 1,
                           !.target_row_id = Ref(fresh.created.rows + 1)]
           listening ==
             [row EXCEPT !.created.listeners = @ + 1,
                         !.listener_thread = Ref(row.created.listeners + 1)]
           failed(at) ==
             on_recording_error(Emit(rollback_start(at), "recording_error", 0))
       IN  CASE how = "no_row" -> failed(fresh)
             [] how = "no_listener" -> failed(row)
             [] OTHER -> Emit(listening, "recording_started", 0)

\* RecordingManager._queue_stop()
queue_stop(m) == stop(m)

\* RecordingManager._on_listener_error(message)
on_listener_error(m) ==
  stop(on_recording_error(Emit(m, "recording_error", 0)))

\* RecordingManager._on_raw_event(raw)
on_raw_event(m, raw) ==
  LET fedto == feed(m.buffer, raw, Len(m.fed) + 1)
  IN  append_actions([m EXCEPT !.buffer = fedto, !.fed = Append(@, raw)],
                     Produced(m.buffer, fedto))

\* the raw event a listener reports
ListenerRaw == Raw("click", 1000, "left", 12, 34, "")

ListenerSignals == {"stop_requested", "listener_error", "input_event"}

\* what a call on the manager leaves alone
manager_others ==
  <<board, engine_vars, ahk_vars, file_vars, wait_vars, script_vars>>

ManagerInit ==
  /\ board = TaskBoard(<<>>)
  /\ ports = AllPorts
  /\ EngineIdle
  /\ AhkNone
  /\ NoFiles
  /\ NoWait
  /\ NoScript
  /\ NoBuffer
  /\ NoManager

\* MainWindow._start_recording: recording_manager.start()
ManagerStart ==
  /\ created.buffers <= MaxStarts
  /\ \E how \in StartOutcomes : SetManager(start(Manager, how))
  /\ UNCHANGED <<queued, manager_others>>

\* MainWindow._stop_recording: recording_manager.stop()
ManagerStop ==
  /\ SetManager(stop(Manager))
  /\ UNCHANGED <<queued, manager_others>>

\* the running listener raises a signal; the connection queues it
ListenerSignal ==
  /\ listener_thread.present
  /\ created.signals < MaxSignals
  /\ \E signal \in ListenerSignals : queued' = Append(queued, signal)
  /\ created' = [created EXCEPT !.signals = @ + 1]
  /\ UNCHANGED <<is_recording, is_stopping, target_row_id, listener_thread,
                 buffer, fed, emitted, appended, manager_others>>

\* the GUI thread delivers a queued stop_requested
QueueStop ==
  /\ queued # <<>>
  /\ Head(queued) = "stop_requested"
  /\ SetManager(queue_stop(Manager))
  /\ queued' = Tail(queued)
  /\ UNCHANGED manager_others

\* the GUI thread delivers a queued listener_error
OnListenerError ==
  /\ queued # <<>>
  /\ Head(queued) = "listener_error"
  /\ SetManager(on_listener_error(Manager))
  /\ queued' = Tail(queued)
  /\ UNCHANGED manager_others

\* the GUI thread delivers a queued input_event
OnRawEvent ==
  /\ queued # <<>>
  /\ Head(queued) = "input_event"
  /\ SetManager(on_raw_event(Manager, ListenerRaw))
  /\ queued' = Tail(queued)
  /\ UNCHANGED manager_others

ManagerNext ==
  \/ ManagerStart
  \/ ManagerStop
  \/ ListenerSignal
  \/ QueueStop
  \/ OnListenerError
  \/ OnRawEvent

ManagerSpec == ManagerInit /\ [][ManagerNext]_vars

\* positions in `emitted` of a signal
Emissions(signal) ==
  {n \in 1..Len(emitted) : emitted[n].signal = signal}

\* the last recording_started or recording_stopped emitted, 0 if none
LastSessionSignal ==
  LET session == Emissions("recording_started") \cup Emissions("recording_stopped")
  IN  IF session = {} THEN 0
      ELSE CHOOSE n \in session : \A q \in session : q <= n

\* C30: start() while is_recording is true changes nothing; stop() while not
\* recording or while a stop is in progress changes nothing and emits nothing;
\* whatever the order of start, stop, stop requests and listener errors, a
\* recording_started is followed by at most one recording_stopped before the
\* next recording_started, and is_recording is false after a recording_stopped.
C30_StartStopIdempotent ==
  /\ is_recording => \A how \in StartOutcomes : start(Manager, how) = Manager
  /\ (~is_recording \/ is_stopping) => stop(Manager) = Manager
  /\ \A a, b \in Emissions("recording_stopped") :
       a < b => \E n \in Emissions("recording_started") : a < n /\ n < b
  /\ \A a \in Emissions("recording_stopped") :
       \E n \in Emissions("recording_started") : n < a
  /\ (LastSessionSignal # 0
        /\ emitted[LastSessionSignal].signal = "recording_stopped")
       => ~is_recording

\* one recording was started; a stop request and a listener error were both
\* delivered, and recording_stopped was emitted once
C30_Witness ==
  /\ created.buffers = 2
  /\ created.signals = 2
  /\ queued = <<>>
  /\ Cardinality(Emissions("recording_started")) = 1
  /\ Cardinality(Emissions("recording_error")) = 1
  /\ Cardinality(Emissions("recording_stopped")) = 1
  /\ ~is_recording

(***************************************************************************)
(* Order of the handler calls of a run.                                    *)
(***************************************************************************)
\* the handler calls the engine itself made in this run, in order
TopCalls == SelectSeq(trace, LAMBDA c : c.via = "engine")

\* a step in which execute_action starts a handler
TopCallStarts == Len(SelectSeq(trace', LAMBDA c : c.via = "engine")) > Len(TopCalls)

\* the suspension after the handler that execute_action owes action a, whose
\* handler took execution_time
OwedAfter(a) ==
  IF a.delay_after_ms > 0 /\ a.delay_after_ms - execution_time > 0
    THEN <<Sleep(a, "after", a.delay_after_ms - execution_time)>>
  ELSE <<>>

\* C31: in one run the engine starts handlers in the order of the flattened
\* sequence, each position at most once; it starts one only when every
\* handler it started before has returned, its Result is appended and the
\* suspension for its delay_after is over; at most one handler started by
\* the engine is in progress, the one of the position the loop is at.
C31_SequentialDispatch ==
  /\ [](\A m, n \in 1..Len(TopCalls) :
          /\ m < n => TopCalls[m].pos < TopCalls[n].pos
          /\ TopCalls[n].id = actions[TopCalls[n].pos].id)
  /\ [](/\ Len(TopCalls) - Len(results) \in {0, 1}
        /\ Len(TopCalls) - Len(results) = 1
             => /\ pc \in {"handler", "append", "raised"}
                     \/ (pc = "idle" /\ outcome = "raised")
                /\ Last(TopCalls).pos = i
        /\ pc \in {"handler", "append", "sleep_after"}
             => TopCalls # <<>> /\ Last(TopCalls).pos = i)
  /\ [][TopCallStarts /\ TopCalls # <<>>
          => LET a == actions[Last(TopCalls).pos]
             IN  /\ pc = "dispatch" /\ stack = <<>>
                 /\ Len(results) = Len(TopCalls)
                 /\ Last(results).action_id = a.id
                 /\ Last(TopCalls).pos < i
                 /\ SleepsAfter(a) = OwedAfter(a)]_vars

\* the handler of the second action of DelayBoard is in progress: the first
\* one returned after 5 of its 10 ms and the engine slept the other 5
C31_Witness ==
  /\ pc = "handler"
  /\ Len(TopCalls) = 2
  /\ Len(results) = 1
  /\ actions[1].delay_after_ms = 10
  /\ sleeps = <<Sleep(actions[1], "after", 5)>>

\* the state of the run that pause() and resume() must leave alone
RunProgress == <<pc, i, actions, trace, results, executed, dicts, stack, result>>

\* C32: pause() and resume() change nothing but is_paused; while is_paused
\* holds at the pause test of an iteration the engine stays there and calls
\* nothing; a handler in progress goes on whether is_paused holds or not;
\* the engine leaves the pause test only with is_paused false and then calls
\* execute_action on the action of that very iteration; the position moves
\* on only past an action that was skipped by the skip count or that
\* execute_action was called on.
C32_PauseAtBoundary ==
  /\ [][is_paused' # is_paused => UNCHANGED RunProgress]_vars
  /\ [][pc = "pause" /\ is_paused /\ is_paused'
          => pc' = "pause" /\ UNCHANGED RunProgress]_vars
  /\ [][pc = "pause" /\ pc' # "pause"
          => ~is_paused /\ pc' = "exec" /\ i' = i /\ executed' = executed]_vars
  /\ [][pc = "exec" /\ pc' # "exec"
          => executed' = Append(executed, actions[i].id)]_vars
  /\ [][pc # "idle" /\ i' # i
          => /\ i' = i + 1
             /\ \/ pc = "control" /\ SkipCount(Variables) > 0
                \/ executed' # <<>> /\ Last(executed') = actions[i].id]_vars
  /\ [](pc = "handler" /\ is_paused
          => ENABLED (HandlerRun \/ RunRowCall \/ RunRowNext))

\* pause() came after the pause test of the first iteration: the handler of
\* the first action ran and returned, its Result is appended, and the engine
\* waits at the pause test of the second iteration
C32_Witness ==
  /\ pc = "pause"
  /\ is_paused
  /\ i = 2
  /\ Len(results) = 1
  /\ Len(TopCalls) = 1
  /\ executed = <<actions[1].id>>

\* C33: every execute_board call empties the result list and leaves in
\* variables only _board and _running = true, whatever an earlier run or
\* set_variable left there; the first iteration of every run therefore sees
\* no break and no skip count, and the list a run returns holds, in order,
\* the Results of the handlers called in that run and no others.
C33_FreshRunState ==
  /\ [][runs' = runs + 1
          => /\ results' = <<>>
             /\ Variables' = Put(Put(EmptyMap, "_board", "board"), "_running", TRUE)
             /\ is_running' /\ i' = 1 /\ stack' = <<>>]_vars
  /\ [](pc \in {"loop", "control"} /\ i = 1
          => /\ DOMAIN Variables = {"_board", "_running"}
             /\ ~BreakRequested(Variables)
             /\ SkipCount(Variables) = 0
             /\ results = <<>>)
  /\ [](pc = "idle" /\ outcome = "returned"
          => /\ Len(returned) = Len(TopCalls)
             /\ \A k \in 1..Len(returned) :
                  /\ returned[k].action_id = TopCalls[k].id
                  /\ returned[k].action_id = actions[TopCalls[k].pos].id)

\* the second run on BreakBoard dispatched a1 and the conditional, which
\* decided break again, and returned their two Results
C33_Witness ==
  /\ runs = 2
  /\ registrations = 0
  /\ board = BreakBoard
  /\ pc = "idle" /\ outcome = "returned"
  /\ Len(returned) = 2
  /\ returned[1].action_id = "a1"
  /\ IsBreakTrue(returned[2])

(***************************************************************************)
(* C34: the decision of a conditional and its writes.                      *)
(***************************************************************************)
\* a step in which ConditionalHandler.execute runs
ConditionalStep ==
  /\ pc = "handler"
  /\ stack # <<>> => Top.pos <= Len(board.rows[Top.row].actions) /\ CurAction.enabled
  /\ CurHandler = "CONDITIONAL"
  /\ pc' # pc \/ stack' # stack

\* the call returned a Result rather than raising
ConditionalReturned ==
  IF stack = <<>> THEN pc' = "append" ELSE Len(stack') = Len(stack)

\* the values the condition of action a can have over variables v
ConditionHolds(a, v) ==
  LET type == Get(a.metadata, "condition_type", "variable_equals")
  IN IF type = "variable_equals"
       THEN {Get(v, Get(a.metadata, "variable_name", ""), "")
               = Get(a.metadata, "condition_value", "")}
     ELSE IF ~ports.screen THEN {FALSE}
     ELSE IF type = "image_exists" THEN BOOLEAN
     ELSE IF type = "pixel_color" /\ a.coordinates.present /\ a.color.present
       THEN BOOLEAN
     ELSE {FALSE}

\* w differs from v in at most the keys of ks
SameBut(v, w, ks) ==
  /\ DOMAIN w \ ks = DOMAIN v \ ks
  /\ \A k \in DOMAIN v \ ks : w[k] = v[k]

\* what decision d may do to the variables v, giving w
DecisionEffect(v, w, d) ==
  IF d = "skip_next"
    THEN /\ SkipCount(w) = SkipCount(v) + 1
         /\ SameBut(v, w, {"_skip_next_count"})
  ELSE IF d = "break"
    THEN /\ BreakRequested(w) = TRUE
         /\ SameBut(v, w, {"_break_execution"})
  ELSE w = v

\* C34: every call of the conditional handler that returns has decided
\* if_true when its condition held and if_false otherwise (execute_next and
\* skip_next when the action does not say); skip_next added exactly 1 to
\* _skip_next_count and changed nothing else, break set _break_execution and
\* changed nothing else, execute_next changed nothing; the Result it hands
\* to the engine has success = true and names that decision; and without a
\* screen port the call always returns, its image or pixel condition being
\* false.
C34_ConditionalDecision ==
  [][ConditionalStep =>
       LET a == CurAction
           ref == handler_variables'["CONDITIONAL"]
           v == dicts[ref]
           w == dicts'[ref]
           if_true == Get(a.metadata, "if_true", "execute_next")
           if_false == Get(a.metadata, "if_false", "skip_next")
       IN /\ ~ports.screen => ConditionalReturned
          /\ ConditionalReturned =>
               \E c \in ConditionHolds(a, v) :
                 LET d == IF c THEN if_true ELSE if_false
                 IN /\ DecisionEffect(v, w, d)
                    /\ \A o \in DOMAIN dicts \ {ref} : dicts'[o] = dicts[o]
                    /\ stack = <<>> =>
                         /\ result'.success
                         /\ result'.action_id = a.id
                         /\ result'.message.decision = d
                         /\ result'.message.cond = (IF c THEN "True" ELSE "False")]_vars

\* the result of the conditional with the given id, when it is the last one
\* appended
LastResultOf(id) ==
  /\ results # <<>>
  /\ Last(results).action_id = id
  /\ Last(results).success

\* without a screen port the three pixel conditions have counted as false
\* and decided execute_next, and the image condition has counted as false
\* and its if_false has requested the break
C34_Witness ==
  /\ board = ConditionBoard /\ ~ports.screen
  /\ Len(results) = 5
  /\ \A n \in 1..5 : results[n].success /\ results[n].message.cond \in {"False", "-"}
  /\ results[1].message.decision = "execute_next"
  /\ LastResultOf("p4")
  /\ Last(results).message.decision = "break"
  /\ BreakRequested(Variables) /\ SkipCount(Variables) = 0
  /\ pc = "loop"

(***************************************************************************)
(* C35: the line numbers of the parsed commands.                           *)
(***************************************************************************)
\* the bodies of commands of a parsed script
ParsedBodies(script) ==
  {script.top_level}
    \cup {script.hotkeys[k].body : k \in 1..Len(script.hotkeys)}
    \cup {script.functions[k].body : k \in 1..Len(script.functions)}

\* command c has the text of line c.line_no of the source
ParsedFromItsLine(c) ==
  /\ c.line_no \in 1..Len(script_text)
  /\ LET line == script_text[c.line_no]
     IN /\ line.kind # "blank"
        /\ c.raw = line.raw
        /\ c.name \in {line.name, line.inline}

\* C35: every command of the parsed script, at top level, in an inline
\* hotkey body or in a brace block, carries the 1-based number of the source
\* line it was parsed from: that line has the command's text, and the
\* commands of one body, which are in source order, have increasing numbers.
C35_LineNumbers ==
  script_pc # "text" =>
    \A body \in ParsedBodies(parsed) :
      /\ \A k \in 1..Len(body) : ParsedFromItsLine(body[k])
      /\ \A k \in 1..(Len(body) - 1) : body[k].line_no < body[k + 1].line_no

\* the same for scripts without a block: top-level commands and inline
\* hotkey bodies
C35_OutsideBlocks ==
  script_pc # "text" /\ (\A k \in 1..Len(script_text) :
                           script_text[k].opens = 0 /\ script_text[k].closes = 0) =>
    \A body \in ParsedBodies(parsed) :
      \A k \in 1..Len(body) : ParsedFromItsLine(body[k])

\* the same for the blocks that are closed and hold no blank line
C35_PlainBlocks ==
  script_pc # "text" /\ script_text \in {CallsScript, CaseScript, MainScript} =>
    \A body \in ParsedBodies(parsed) :
      \A k \in 1..Len(body) : ParsedFromItsLine(body[k])

(***************************************************************************)
(* C36: control flags set inside a RUN_ROW call.                           *)
(***************************************************************************)
\* the calls RunRowHandler made for the row of the RUN_ROW action the engine
\* dispatched last: those at depth 1 after the engine's last call
InnerCalls ==
  LET tops == {k \in 1..Len(trace) : trace[k].via = "engine"}
      last == CHOOSE k \in tops : \A q \in tops : q <= k
  IN IF tops = {} THEN <<>>
     ELSE SelectSeq(SubSeq(trace, last + 1, Len(trace)), LAMBDA c : c.depth = 1)

\* the actions of the row a RUN_ROW action names that its loop hands to a
\* handler
CalledActions(a) ==
  LET r == FindRow(board, Get(a.metadata, "row_id", ""))
  IN IF r = 0 THEN <<>>
     ELSE SelectSeq(board.rows[r].actions,
                    LAMBDA x : x.enabled /\ get_handler(handlers, x.action_type) # None)

\* the engine's RUN_ROW call of actions[i] has returned that the row is done
RunRowDone ==
  /\ pc = "append"
  /\ actions[i].action_type = "RUN_ROW"
  /\ get_handler(handlers, "RUN_ROW") = "RUN_ROW"
  /\ result.success
  /\ result.message.text = "row done"

\* the engine is between the control checks of an iteration and the handler
\* of its action
PastControl == pc \in {"pause", "exec", "sleep_before", "dispatch"}

\* C36: a RUN_ROW call the engine made returns that the row is done only
\* after every enabled action of the row that has a handler was dispatched,
\* in order, whatever the conditionals among them decided; a step inside the
\* call that sets a flag never ends the call; the engine passes the control
\* checks of an iteration only with _break_execution unset and
\* _skip_next_count at 0, so that a flag set inside the call ends the outer
\* run, or skips the outer run's next action without dispatching it, at the
\* first iteration boundary after the RUN_ROW action has returned.
C36_FlagsInsideRunRow ==
  /\ [](RunRowDone =>
          /\ Len(InnerCalls) = Len(CalledActions(actions[i]))
          /\ \A k \in 1..Len(InnerCalls) :
               /\ InnerCalls[k].id = CalledActions(actions[i])[k].id
               /\ InnerCalls[k].via = "run_row")
  /\ [][stack # <<>> /\ Variables' # Variables /\ pc = "handler"
          => /\ pc' = "handler"
             /\ stack' = [stack EXCEPT ![Len(stack)].pos = @ + 1]
             /\ results' = results
             /\ i' = i]_vars
  /\ [](PastControl => ~BreakRequested(Variables) /\ SkipCount(Variables) = 0)
  /\ [][pc = "control" /\ BreakRequested(Variables) /\ pc' # pc
          => pc' = "finish" /\ trace' = trace /\ results' = results]_vars
  /\ [][pc = "control" /\ ~BreakRequested(Variables) /\ SkipCount(Variables) > 0
          /\ pc' # pc
          => /\ pc' = "loop" /\ i' = i + 1
             /\ trace' = trace /\ results' = results /\ executed' = executed
             /\ SkipCount(Variables') = SkipCount(Variables) - 1]_vars

\* on CallBoard the conditional s2 of the called row has decided skip_next,
\* the wait s4 after it was still dispatched, and the outer run has skipped
\* c0 and dispatched a0
C36_Witness ==
  /\ board = CallBoard
  /\ runs = 1 /\ registrations = 0
  /\ pc = "handler" /\ stack = <<>>
  /\ i = 3
  /\ [k \in 1..Len(trace) |-> trace[k].id] = <<"call", "s1", "s2", "s4", "a0">>
  /\ [k \in 1..Len(results) |-> results[k].action_id] = <<"call">>
  /\ results[1].success
  /\ executed = <<"call", "a0">>
  /\ SkipCount(Variables) = 0

(***************************************************************************)
(* C37: function rows in an emulated run.                                  *)
(***************************************************************************)
\* the action ids of a sequence of Results
ResultIds(seq) == [k \in 1..Len(seq) |-> seq[k].action_id]

RECURSIVE RowActions(_)
\* the enabled actions of the rows, row after row
RowActions(rows) ==
  IF rows = <<>> THEN <<>> ELSE EnabledActions(Head(rows)) \o RowActions(Tail(rows))

\* an emulated run is under way or over
Emulated == ahk_pc = "emulating" \/ (ahk_pc = "returned" /\ ahk_result.mode = "emulated"
                                     /\ "engine" \in Range(invoked))

\* the emulated run went through the whole sequence: it returned, stop()
\* was not called during it and no handler raised
RanThrough ==
  /\ ahk_pc = "returned"
  /\ ahk_result.mode = "emulated"
  /\ "engine" \in Range(invoked)
  /\ outcome = "returned"
  /\ ~stop_at.called

\* C37: the board of an emulated run has the main row first and then one
\* enabled row per function, and the sequence the run iterates over is the
\* enabled actions of the main row followed by those of every function row.  A run
\* that goes through the sequence dispatches every action of every
\* function row exactly once at top level, after those of the main row and
\* whether or not a RUN_ROW action names the row; each RUN_ROW call that
\* returns 'row done' has dispatched the row's actions once more; every
\* top-level dispatch has its Result in the returned list, and the run's
\* success is the conjunction of all of them.
C37_FunctionRowsRunAtTopLevel ==
  /\ [](Emulated =>
          /\ board.rows # <<>>
          /\ board.rows[1].id = "row_main"
          /\ \A r \in 2..Len(board.rows) : board.rows[r].enabled
          /\ actions
               = EnabledActions(board.rows[1]) \o RowActions(FunctionRowsOf(board)))
  /\ [](RanThrough =>
          /\ Ids(TopCalls) = Ids(actions)
          /\ ResultIds(returned) = Ids(actions)
          /\ ahk_result.success = (\A k \in 1..Len(returned) : returned[k].success))
  /\ [](Emulated /\ RunRowDone =>
          Ids(InnerCalls) = Ids(CalledActions(actions[i])))

\* MainScript, whose main row calls the row of Main: the Send of Main was
\* dispatched inside the call and once more at top level, where it failed,
\* and the run is reported as failed
C37_Witness ==
  /\ RanThrough
  /\ Len(board.rows) = 2
  /\ Len(board.rows[1].actions) = 1
  /\ board.rows[1].actions[1].action_type = "RUN_ROW"
  /\ Len(board.rows[2].actions) = 1
  /\ Len(trace) = 3
  /\ trace[1].via = "engine" /\ trace[1].kind = "RUN_ROW"
  /\ trace[2].via = "run_row" /\ trace[2].id = board.rows[2].actions[1].id
  /\ trace[3].via = "engine" /\ trace[3].id = board.rows[2].actions[1].id
  /\ Len(returned) = 2
  /\ returned[1].success /\ ~returned[2].success
  /\ ~ahk_result.success

\* SampleScript, whose function DoThing no command calls: its row was run
\* at top level after the main row
C37_WitnessUncalled ==
  /\ RanThrough
  /\ Len(board.rows) = 2
  /\ board.rows[2].actions # <<>>
  /\ \A k \in 1..Len(board.rows[1].actions) :
       board.rows[1].actions[k].action_type # "RUN_ROW"
  /\ Len(TopCalls) = Len(board.rows[1].actions) + Len(board.rows[2].actions)
  /\ Len(returned) = Len(TopCalls)
  /\ Last(returned).action_id = Last(board.rows[2].actions).id

(***************************************************************************)
(* C38: stop() between runs.                                               *)
(***************************************************************************)
\* C38: a stop() called while no run is under way is not remembered: the
\* step that starts the next run sets is_running to true; during a run
\* is_running is false only after a stop() called during that run; and a
\* run during which stop() is not called leaves its loop only at the end of
\* the flattened sequence or by a break, and it has called execute_action
\* on every action of the sequence, in order, when none of them can set a
\* control flag, whether or not stop() was called before the run.
C38_IdleStopNotLatched ==
  /\ [][runs' = runs + 1 => is_running' /\ pc' = "loop" /\ i' = 1]_vars
  /\ [](pc \notin {"idle", "raised"} /\ ~stop_at.called => is_running)
  /\ [](pc = "finish" /\ ~stop_at.called =>
          i = Len(actions) + 1 \/ BreakRequested(Variables))
  /\ [](pc = "idle" /\ outcome = "returned" /\ ~stop_at.called
          /\ ~BreakRequested(Variables) =>
          /\ i = Len(actions) + 1
          /\ (\A k \in 1..Len(actions) :
                actions[k].action_type \notin {"CONDITIONAL", "RUN_ROW"})
               => executed = Ids(actions))

\* stop() was called on the idle engine before its first run, which then
\* went through the whole of DelayBoard
C38_Witness ==
  /\ board = DelayBoard
  /\ runs = 1
  /\ stop_at.before /\ ~stop_at.called
  /\ pc = "idle" /\ outcome = "returned"
  /\ ~is_running
  /\ executed = <<"d1", "d2">>
  /\ ResultIds(returned) = <<"d1", "d2">>
  /\ Ids(TopCalls) = <<"d1", "d2">>

(***************************************************************************)
(* C39: the two suspensions of a timed wait.                               *)
(***************************************************************************)
RECURSIVE TotalMs(_)
\* the sum of the suspensions of a sequence of them
TotalMs(sl) == IF sl = <<>> THEN 0 ELSE Head(sl).ms + TotalMs(Tail(sl))

\* the suspensions made for the action with the given id
SleepsOf(id) == SelectSeq(sleeps, LAMBDA sl : sl.id = id)

\* the calls of the timed-wait handler on the action with the given id,
\* made by the engine and made by RunRowHandler
WaitCalls(id, via) ==
  SelectSeq(trace, LAMBDA c : c.id = id /\ c.handler = "WAIT_TIME" /\ c.via = via)

\* a step in which WaitTimeHandler.execute runs on an action with a positive
\* delay_before_ms
TimedWaitStep ==
  /\ pc = "handler"
  /\ stack # <<>> => Top.pos <= Len(board.rows[Top.row].actions) /\ CurAction.enabled
  /\ CurHandler = "WAIT_TIME"
  /\ CurAction.delay_before_ms > 0
  /\ pc' # pc \/ stack' # stack

\* the timed waits of the flattened sequence that have a positive
\* delay_before_ms
DelayedWaits ==
  {a \in Range(actions) : a.action_type = "WAIT_TIME" /\ a.delay_before_ms > 0}

NoWaitArgs == {<<"0">>, <<"-5">>, <<"abc">>, <<>>}

\* the Sleep commands of the script of the request that ask for no wait
NoWaitCommands ==
  {c \in Range(AllCommands(RequestScript)) : c.name = "Sleep" /\ c.args \in NoWaitArgs}

\* the actions of the run's sequence with the given id
ActionsWithId(id) == {a \in Range(actions) : a.id = id}

\* C40: in an emulated run every Sleep command whose argument is 0,
\* negative, not a number or missing is a WAIT_TIME action with
\* delay_before_ms = 0 and no wait_ms metadata; the engine does not suspend
\* the run before dispatching it, and every run of the timed-wait handler
\* on it suspends the run for the default of 1000 ms.
C40_ZeroSleepIsDefault ==
  /\ [](Emulated =>
          \A c \in NoWaitCommands :
            /\ ActionsWithId(ActionId(c)) # {}
            /\ \A a \in ActionsWithId(ActionId(c)) :
                 /\ a.action_type = "WAIT_TIME"
                 /\ a.delay_before_ms = 0
                 /\ "wait_ms" \notin DOMAIN a.metadata
                 /\ \A k \in 1..Len(SleepsOf(a.id)) :
                      SleepsOf(a.id)[k] = Sleep(a, "handler", 1000)
                 /\ pc \in {"loop", "idle"} =>
                      Len(SleepsOf(a.id)) = Len(WaitCalls(a.id, "engine")))
  /\ [][Emulated /\ pc = "handler" /\ pc' = "append" /\ stack = <<>>
          /\ CurHandler = "WAIT_TIME" /\ CurAction.delay_before_ms = 0
          /\ "wait_ms" \notin DOMAIN CurAction.metadata
          => sleeps' = Append(sleeps, Sleep(CurAction, "handler", 1000))]_vars

\* the emulated run of SleepScript went through: its four waits for
\* nothing have slept 1000 ms each, Sleep(10) twice 10
C40_Witness ==
  /\ RanThrough
  /\ request.file.lines = SleepScript
  /\ Len(actions) = 5
  /\ [k \in 1..Len(sleeps) |-> sleeps[k].ms] = <<1000, 1000, 1000, 1000, 10, 10>>
  /\ [k \in 1..Len(sleeps) |-> sleeps[k].by]
       = <<"handler", "handler", "handler", "handler", "before", "handler">>
  /\ ahk_result.success
====
